---- MODULE Spec2Model ----
(***************************************************************************)
(* State-machine model of the photo gallery / analysis screens of the      *)
(* camera application: the `analyses`-map revision of the Detail screen    *)
(* (src/unnamed/part_001), the hashed-cache revision                       *)
(* (src/app/(tabs)/Detail.tsx) and the camera tab (src/app/(tabs)/index.tsx).*)
(*                                                                         *)
(* Strings that the code takes apart (uris, language codes, storage keys)  *)
(* are sequences of one-character strings, so that startsWith, includes,   *)
(* split and template concatenation are computed as the code computes them.*)
(*                                                                         *)
(* Every async function is a task: a record holding the values its closure *)
(* captured when it was called and its position (pc).  One action runs one *)
(* turn of the event loop: the code between two awaits.  AsyncStorage      *)
(* serves requests in the order they are issued, so a getItem yields the   *)
(* value stored when it was issued (kept in the task as `got`) and a       *)
(* setItem takes effect when it is issued.                                 *)
(***************************************************************************)
EXTENDS Naturals, Sequences, FiniteSets, Bags, TLC

VARIABLES
    capturedPhotos,         \* Detail screen: useState<PhotoItem[]>
    selectedPhoto,          \* Detail screen: useState<PhotoItem | null>
    aiAnalysis,             \* Detail screen: useState<string | null>
    isAnalyzing,            \* Detail screen: useState(false)
    selectedLanguage,       \* Detail screen: useState<Language>("en")
    isSelectionMode,        \* Detail screen: useState(false)
    selectedPhotos,         \* Detail screen: Set<PhotoItem> (part_001), Set<string> (Detail.tsx)
    showDeleteConfirmation, \* Detail screen: useState(false)
    analysisCache,          \* Detail.tsx: useRef<Record<string, string>>({})
    camPhotos,              \* camera tab: useState<Array<{uri}>>([])
    created,                \* number of photo files the camera has written
    stPhotos,               \* AsyncStorage item "capturedPhotos"
    stAnalyses,             \* AsyncStorage item "analyses" (part_001)
    stCache,                \* AsyncStorage item "analysisCache" (Detail.tsx)
    stRecords,              \* AsyncStorage items "analysis_<uri>_<language>" (Detail.tsx)
    stLanguage,             \* AsyncStorage item "selectedLanguage"
    tasks,                  \* bag of the async invocations in flight
    ops,                    \* number of async handler invocations so far
    done                    \* the invocation that returned in the last step, if any

vars == <<capturedPhotos, selectedPhoto, aiAnalysis, isAnalyzing, selectedLanguage,
          isSelectionMode, selectedPhotos, showDeleteConfirmation, analysisCache,
          camPhotos, created, stPhotos, stAnalyses, stCache, stRecords, stLanguage,
          tasks, ops, done>>

uiVars == <<capturedPhotos, selectedPhoto, aiAnalysis, isAnalyzing, selectedLanguage,
            isSelectionMode, selectedPhotos, showDeleteConfirmation>>

camVars == <<camPhotos, created>>

storeVars == <<stPhotos, stAnalyses, stCache, stRecords, stLanguage>>

(***************************************************************************)
(* Bounds of the model.                                                    *)
(***************************************************************************)
MaxPhotos == 2      \* number of distinct photo uris
MaxOps == 5         \* invocations of async handlers in one behaviour
MaxInFlight == 1    \* async invocations in flight at once
MaxUriLen == 4      \* length of the uris a key is derived from
MaxCalls == 2       \* calls of the store functions in one behaviour

(***************************************************************************)
(* Strings.                                                                *)
(***************************************************************************)
en == <<"e", "n">>
es == <<"e", "s">>
ru == <<"r", "u">>
languages == {en, es, ru}

\* The uris photos can have: "a", "ab" (one a prefix of the other), "c_d", "e".
UriPool == << <<"a">>, <<"a", "b">>, <<"c", "_", "d">>, <<"e">> >>

Min(a, b) == IF a <= b THEN a ELSE b

Uris == {UriPool[i] : i \in 1..Min(MaxPhotos, Len(UriPool))}

\* String.prototype.startsWith
StartsWith(s, p) == Len(p) <= Len(s) /\ SubSeq(s, 1, Len(p)) = p

\* String.prototype.endsWith
EndsWith(s, p) == Len(p) <= Len(s) /\ SubSeq(s, Len(s) - Len(p) + 1, Len(s)) = p

\* String.prototype.includes
Includes(s, p) == \E i \in 0..Len(s) : i + Len(p) <= Len(s) /\ SubSeq(s, i + 1, i + Len(p)) = p

\* A key that leaves the language out.
KeyOf_uriOnly(uri, lang) == uri \o <<"_">>

\* `${photoUri}_${selectedLanguage}`
KeyOf(uri, lang) == uri \o <<"_">> \o lang

(***************************************************************************)
(* Texts.  A text is what the remote annotator or a failure path produced: *)
(* kind "analysis" is a description of photo `uri` written in `lang`,      *)
(* "placeholder" is the literal the code substitutes for an empty response,*)
(* "error" is a message of a failure path.  Translating keeps what the     *)
(* text says and changes its language.                                     *)
(***************************************************************************)
Null == [kind |-> "null", uri |-> <<>>, lang |-> <<>>]

DescribeResult(uri, lang) == [kind |-> "analysis", uri |-> uri, lang |-> lang]

Placeholder(uri, lang) == [kind |-> "placeholder", uri |-> uri, lang |-> lang]

ErrorText(uri) == [kind |-> "error", uri |-> uri, lang |-> en]

\* What the caller of analyzeImage gets when the returned promise rejects.
Rejected == [kind |-> "rejected", uri |-> <<>>, lang |-> <<>>]

TranslateResult(text, lang) == [text EXCEPT !.lang = lang]

\* What a chat-completion request can do: answer with content, answer with
\* empty content, or throw.
Outcomes == {"content", "empty", "throw"}

(***************************************************************************)
(* AsyncStorage items.  An item is absent or holds a JSON value.           *)
(***************************************************************************)
Absent == [present |-> FALSE, val |-> <<>>]

Item(v) == [present |-> TRUE, val |-> v]

\* An item whose text is not JSON: JSON.parse throws on it.
Malformed == [present |-> TRUE, val |-> <<>>, json |-> FALSE]

\* JSON.parse(item) returns.
Parses(item) == item.present /\ "json" \notin DOMAIN item

EmptyMap == <<>>

Put(map, k, v) == [x \in (DOMAIN map) \cup {k} |-> IF x = k THEN v ELSE map[x]]

Without(map, ks) == [x \in (DOMAIN map) \ ks |-> map[x]]

Has(map, k) == k \in DOMAIN map

\* Everything analyses and photos are kept in: the AsyncStorage items and the
\* in-memory analysisCache.
StoreView == <<stPhotos, stAnalyses, stCache, stRecords, stLanguage, analysisCache>>

(***************************************************************************)
(* Tasks.                                                                  *)
(***************************************************************************)
InFlight == BagCardinality(tasks)

TaskSet == BagToSet(tasks)

Spawn(B, t) == B (+) SetToBag({t})

Retire(B, t) == B (-) SetToBag({t})

NoOp == [op |-> "none"]

\* A handler may be invoked while the budget of the behaviour lasts.
CanInvoke == ops < MaxOps /\ InFlight < MaxInFlight

\* The screen may gain focus, whatever the handlers have in flight, while the
\* budget lasts and the load of the previous focus has returned.
CanFocus == ops < MaxOps /\ \A t \in TaskSet : t.op # "loadSavedPhotos"

(***************************************************************************)
(* Ghost bookkeeping of a task: `pre` is the store when the handler was    *)
(* called, `seen` the store as the task's last turn left it, `clean` tells *)
(* that no other invocation wrote to the store in between, `reqs` lists    *)
(* the remote requests the invocation issued.                              *)
(***************************************************************************)
Touch(t) == [t EXCEPT !.clean = t.clean /\ StoreView = t.seen, !.seen = StoreView']

Continue(t, t2) ==
    /\ tasks' = Spawn(Retire(tasks, t), t2)
    /\ done' = NoOp

ContinueWith(t, t2, d) ==
    /\ tasks' = Spawn(Retire(tasks, t), t2)
    /\ done' = d

Finish(t, d) ==
    /\ tasks' = Retire(tasks, t)
    /\ done' = d

Begin(t) ==
    /\ tasks' = Spawn(tasks, t)
    /\ ops' = ops + 1
    /\ done' = NoOp

\* What an invocation reports when it returns.
Report(t, result) ==
    [op |-> t.op, task |-> t, result |-> result,
     clean |-> t.clean /\ StoreView = t.seen]

(***************************************************************************)
(* Photo objects.  JSON.parse makes new objects on every call, and a       *)
(* Set<PhotoItem> compares objects by identity: `ref` is that identity.    *)
(***************************************************************************)
Photo(uri, ref) == [uri |-> uri, ref |-> ref]

RECURSIVE SeqToSet(_)
SeqToSet(s) == IF s = <<>> THEN {} ELSE {Head(s)} \cup SeqToSet(Tail(s))

\* Array.prototype.filter
RECURSIVE Filter(_, _)
Filter(s, keep) ==
    IF s = <<>> THEN <<>>
    ELSE (IF Head(s) \in keep THEN <<Head(s)>> ELSE <<>>) \o Filter(Tail(s), keep)

UrisOf(photos) == [i \in 1..Len(photos) |-> photos[i].uri]

LiveRefs ==
    {p.ref : p \in SeqToSet(capturedPhotos)}
        \cup {p.ref : p \in selectedPhotos}
        \cup (IF selectedPhoto = Null THEN {} ELSE {selectedPhoto.ref})
        \cup UNION {{p.ref : p \in SeqToSet(t.photos) \cup t.sel} :
                      t \in {x \in TaskSet : x.op = "deleteSelectedPhotos"}}

FreshRef == CHOOSE n \in 0..(Cardinality(LiveRefs)) : n \notin LiveRefs

\* JSON.parse(savedPhotos): an array of new objects
ParsePhotos(uris, ref) == [i \in 1..Len(uris) |-> Photo(uris[i], ref)]

(***************************************************************************)
(* src/unnamed/part_001: the Detail screen that keeps every analysis in    *)
(* the single AsyncStorage item "analyses", keyed `<uri>_<language>`.      *)
(***************************************************************************)

\* A new invocation of handler `op`: the selectedLanguage of its closure, its
\* uri argument and the item its first getItem yields.
NewTask(op, pc, lang, uri, got) ==
    [op |-> op, pc |-> pc, lang |-> lang, uri |-> uri, got |-> got,
     text |-> Null, result |-> Null, target |-> lang, photo |-> Null,
     outcome |-> "none",
     pre |-> StoreView, seen |-> StoreView', clean |-> TRUE, reqs |-> <<>>]

\* loadAnalysisForPhoto: the keys the fallback `find` can return.
p1_fallbackKeys(analyses, photoUri) == {k \in DOMAIN analyses : StartsWith(k, photoUri)}

\* A loadAnalysisForPhoto without the catch: the error of JSON.parse reaches
\* the caller.
p1_loadAnalysisForPhoto_throwing(got, photoUri, lang) ==
    IF ~got.present THEN {Null}
    ELSE IF ~Parses(got) THEN {Rejected}
    ELSE IF Has(got.val, KeyOf(photoUri, lang)) THEN {got.val[KeyOf(photoUri, lang)]}
    ELSE IF p1_fallbackKeys(got.val, photoUri) # {}
         THEN {got.val[k] : k \in p1_fallbackKeys(got.val, photoUri)}
    ELSE {Null}

\* loadAnalysisForPhoto(photoUri) on the item `got`: the texts it can return
\* (Null for null).  The fallback returns the first key in insertion order
\* that starts with photoUri; any such key can be the first one.  When
\* JSON.parse throws, the catch returns null.
p1_loadAnalysisForPhoto(got, photoUri, lang) ==
    IF ~got.present THEN {Null}
    ELSE IF ~Parses(got) THEN {Null}
    ELSE IF Has(got.val, KeyOf(photoUri, lang)) THEN {got.val[KeyOf(photoUri, lang)]}
    ELSE IF p1_fallbackKeys(got.val, photoUri) # {}
         THEN {got.val[k] : k \in p1_fallbackKeys(got.val, photoUri)}
    ELSE {Null}

\* A saveAnalysisForPhoto that updates the stored map in one atomic step.
p1_saveAnalysisForPhoto_atomic(got, photoUri, lang, analysis) ==
    Item(Put(IF stAnalyses.present THEN stAnalyses.val ELSE EmptyMap,
             KeyOf(photoUri, lang), analysis))

\* A saveAnalysisForPhoto that writes a map holding the new entry only.
p1_saveAnalysisForPhoto_overwriting(got, photoUri, lang, analysis) ==
    Item(Put(EmptyMap, KeyOf(photoUri, lang), analysis))

\* A saveAnalysisForPhoto that keys the entry by the uri alone.
p1_saveAnalysisForPhoto_byUri(got, photoUri, lang, analysis) ==
    Item(Put(IF got.present THEN got.val ELSE EmptyMap, photoUri, analysis))

\* saveAnalysisForPhoto(photoUri, analysis): the item it writes, from the
\* item `got` it read and the selectedLanguage of its closure.
p1_saveAnalysisForPhoto(got, photoUri, lang, analysis) ==
    Item(Put(IF got.present THEN got.val ELSE EmptyMap, KeyOf(photoUri, lang), analysis))

\* A deleteAnalysesForPhoto that removes the photo's English entry only.
p1_deleteAnalysesForPhoto_currentLanguageOnly(got, cur, photoUri) ==
    IF ~got.present THEN cur
    ELSE IF ~Has(got.val, KeyOf(photoUri, en)) THEN cur
    ELSE Item(Without(got.val, {KeyOf(photoUri, en)}))

\* deleteAnalysesForPhoto(photoUri): the item "analyses" after it, from the
\* item `got` it read and the item `cur` now stored.
p1_deleteAnalysesForPhoto(got, cur, photoUri) ==
    IF ~got.present THEN cur
    ELSE IF p1_fallbackKeys(got.val, photoUri) = {} THEN cur
    ELSE Item(Without(got.val, p1_fallbackKeys(got.val, photoUri)))

\* loadSavedPhotos is called when the screen gains focus.
p1_loadSavedPhotos ==
    /\ CanFocus
    /\ UNCHANGED <<uiVars, analysisCache, camVars, storeVars>>
    /\ Begin(NewTask("loadSavedPhotos", "getPhotos", selectedLanguage, <<>>, stPhotos))

\* loadSavedPhotos after `await AsyncStorage.getItem(STORAGE_KEYS.PHOTOS)`.
p1_loadSavedPhotos_getPhotos ==
    \E t \in TaskSet :
        /\ t.op = "loadSavedPhotos" /\ t.pc = "getPhotos"
        /\ UNCHANGED <<selectedPhoto, aiAnalysis, isAnalyzing, selectedLanguage,
                       isSelectionMode, selectedPhotos, showDeleteConfirmation,
                       analysisCache, camVars, storeVars, ops>>
        /\ IF ~t.got.present
           THEN /\ capturedPhotos' = <<>>
                /\ Finish(t, Report(t, Null))
           ELSE /\ capturedPhotos' = ParsePhotos(t.got.val, FreshRef)
                /\ Continue(t, [Touch(t) EXCEPT !.pc = "getLanguage", !.got = stLanguage])

\* loadLanguagePreference after `await AsyncStorage.getItem(STORAGE_KEYS.LANGUAGE)`.
p1_loadLanguagePreference ==
    \E t \in TaskSet :
        /\ t.op = "loadSavedPhotos" /\ t.pc = "getLanguage"
        /\ selectedLanguage' = IF t.got.present THEN t.got.val ELSE selectedLanguage
        /\ UNCHANGED <<capturedPhotos, selectedPhoto, aiAnalysis, isAnalyzing,
                       isSelectionMode, selectedPhotos, showDeleteConfirmation,
                       analysisCache, camVars, storeVars, ops>>
        /\ Finish(t, Report(t, Null))

\* The grid is covered by the full-screen photo modal and by the delete
\* confirmation modal while either is visible.
GridVisible == selectedPhoto = Null /\ ~showDeleteConfirmation

\* renderItem onPress outside selection mode: openPhoto(item).
p1_openPhoto ==
    \E item \in SeqToSet(capturedPhotos) :
        /\ CanInvoke /\ GridVisible /\ ~isSelectionMode
        /\ aiAnalysis' = Null
        /\ selectedPhoto' = item
        /\ UNCHANGED <<capturedPhotos, isAnalyzing, selectedLanguage, isSelectionMode,
                       selectedPhotos, showDeleteConfirmation, analysisCache, camVars,
                       storeVars>>
        /\ Begin(NewTask("openPhoto", "loaded", selectedLanguage, item.uri, stAnalyses))

\* openPhoto after `await loadAnalysisForPhoto(item.uri)`.
p1_openPhoto_loaded ==
    \E t \in TaskSet :
        /\ t.op = "openPhoto" /\ t.pc = "loaded"
        /\ \E analysis \in p1_loadAnalysisForPhoto(t.got, t.uri, t.lang) :
            /\ aiAnalysis' = IF analysis # Null THEN analysis ELSE aiAnalysis
            /\ UNCHANGED <<capturedPhotos, selectedPhoto, isAnalyzing, selectedLanguage,
                           isSelectionMode, selectedPhotos, showDeleteConfirmation,
                           analysisCache, camVars, storeVars, ops>>
            /\ Finish(t, Report(t, analysis))

\* closePhoto
p1_closePhoto ==
    /\ selectedPhoto # Null
    /\ selectedPhoto' = Null
    /\ aiAnalysis' = Null
    /\ done' = NoOp
    /\ UNCHANGED <<capturedPhotos, isAnalyzing, selectedLanguage, isSelectionMode,
                   selectedPhotos, showDeleteConfirmation, analysisCache, camVars,
                   storeVars, tasks, ops>>

\* The "Analyze Image" button (disabled while isAnalyzing): analyzeImage up to
\* `await loadAnalysisForPhoto(imageUri)`.
p1_analyzeImage ==
    /\ CanInvoke
    /\ selectedPhoto # Null /\ ~isAnalyzing
    /\ isAnalyzing' = TRUE
    /\ aiAnalysis' = Null
    /\ UNCHANGED <<capturedPhotos, selectedPhoto, selectedLanguage, isSelectionMode,
                   selectedPhotos, showDeleteConfirmation, analysisCache, camVars,
                   storeVars>>
    /\ Begin(NewTask("analyzeImage", "loaded", selectedLanguage, selectedPhoto.uri,
                     stAnalyses))

\* analyzeImage after loadAnalysisForPhoto: a stored text is shown and
\* returned; otherwise the image is prepared for the request.
p1_analyzeImage_loaded ==
    \E t \in TaskSet :
        /\ t.op = "analyzeImage" /\ t.pc = "loaded"
        /\ \E existingAnalysis \in p1_loadAnalysisForPhoto(t.got, t.uri, t.lang) :
            /\ UNCHANGED <<capturedPhotos, selectedPhoto, selectedLanguage, isSelectionMode,
                           selectedPhotos, showDeleteConfirmation, analysisCache,
                           camVars, storeVars, ops>>
            /\ IF existingAnalysis # Null
               THEN /\ aiAnalysis' = existingAnalysis
                    /\ isAnalyzing' = FALSE
                    /\ Finish(t, Report(t, existingAnalysis))
               ELSE /\ UNCHANGED <<aiAnalysis, isAnalyzing>>
                    /\ Continue(t, [Touch(t) EXCEPT !.pc = "optimizing"])

\* analyzeImage after manipulateAsync, fetch and the FileReader: they succeed
\* and the describe request is sent, or one of them throws (outer catch), or
\* the reader reports an error (reader.onerror).
p1_analyzeImage_optimized ==
    \E t \in TaskSet, how \in {"sent", "threw", "readerError"} :
        /\ t.op = "analyzeImage" /\ t.pc = "optimizing"
        /\ UNCHANGED <<capturedPhotos, selectedPhoto, selectedLanguage, isSelectionMode,
                       selectedPhotos, showDeleteConfirmation, analysisCache, camVars,
                       storeVars, ops>>
        /\ IF how = "sent"
           THEN /\ UNCHANGED <<aiAnalysis, isAnalyzing>>
                /\ Continue(t, [Touch(t) EXCEPT !.pc = "describing",
                                                !.reqs = Append(t.reqs, "describe")])
           ELSE /\ aiAnalysis' = ErrorText(t.uri)
                /\ isAnalyzing' = FALSE
                /\ Finish(t, Report(t, Null))

\* analyzeImage when the describe request returns: on a response the result
\* (or the placeholder for empty content) goes to saveAnalysisForPhoto, which
\* reads the item "analyses"; a thrown error is shown and rejected.
p1_analyzeImage_described ==
    \E t \in TaskSet, outcome \in Outcomes :
        /\ t.op = "analyzeImage" /\ t.pc = "describing"
        /\ UNCHANGED <<capturedPhotos, selectedPhoto, selectedLanguage, isSelectionMode,
                       selectedPhotos, showDeleteConfirmation, analysisCache, camVars,
                       storeVars, ops>>
        /\ IF outcome = "throw"
           THEN /\ aiAnalysis' = ErrorText(t.uri)
                /\ isAnalyzing' = FALSE
                /\ Finish(t, Report([t EXCEPT !.outcome = outcome], Null))
           ELSE /\ UNCHANGED <<aiAnalysis, isAnalyzing>>
                /\ Continue(t, [Touch(t) EXCEPT
                        !.pc = "saving",
                        !.outcome = outcome,
                        !.text = IF outcome = "content" THEN DescribeResult(t.uri, t.lang)
                                 ELSE Placeholder(t.uri, t.lang),
                        !.got = stAnalyses])

\* saveAnalysisForPhoto after its getItem: the merged map is written.
p1_analyzeImage_saving ==
    \E t \in TaskSet :
        /\ t.op = "analyzeImage" /\ t.pc = "saving"
        /\ stAnalyses' = p1_saveAnalysisForPhoto(t.got, t.uri, t.lang, t.text)
        /\ UNCHANGED <<uiVars, analysisCache, camVars, stPhotos, stCache, stRecords,
                       stLanguage, ops>>
        /\ Continue(t, [Touch(t) EXCEPT !.pc = "saved"])

\* analyzeImage after `await saveAnalysisForPhoto`: the result is shown.
p1_analyzeImage_saved ==
    \E t \in TaskSet :
        /\ t.op = "analyzeImage" /\ t.pc = "saved"
        /\ aiAnalysis' = t.text
        /\ isAnalyzing' = FALSE
        /\ UNCHANGED <<capturedPhotos, selectedPhoto, selectedLanguage, isSelectionMode,
                       selectedPhotos, showDeleteConfirmation, analysisCache, camVars,
                       storeVars, ops>>
        /\ Finish(t, Report(t, t.text))

\* key.split('_')[0]
RECURSIVE SplitFirst(_)
SplitFirst(s) ==
    IF s = <<>> \/ Head(s) = "_" THEN <<>> ELSE <<Head(s)>> \o SplitFirst(Tail(s))

\* What translateAnalysis and translateAnalysisInBackground take from a response:
\* `response.choices[0].message.content || "Translation failed"`.
TranslatedText(text, targetLanguage, outcome) ==
    IF outcome = "content" THEN TranslateResult(text, targetLanguage)
    ELSE Placeholder(<<>>, targetLanguage)

\* The language menu of the photo modal: handleLanguageChange(language) up to
\* `await saveLanguagePreference(language)`.
p1_handleLanguageChange ==
    \E language \in languages :
        /\ CanInvoke
        /\ selectedPhoto # Null
        /\ stLanguage' = Item(language)
        /\ UNCHANGED <<uiVars, analysisCache, camVars, stPhotos, stAnalyses, stCache,
                       stRecords>>
        /\ Begin([NewTask("handleLanguageChange", "langSaved", selectedLanguage,
                          <<>>, Absent)
                    EXCEPT !.target = language, !.photo = selectedPhoto,
                           !.text = aiAnalysis])

\* translateAllCachedAnalyses(targetLanguage) starts by reading "analyses".
p1_toTranslateAll(t) == [Touch(t) EXCEPT !.pc = "allLoaded", !.got = stAnalyses]

\* handleLanguageChange after saveLanguagePreference: the state is updated and
\* a displayed analysis of the open photo is sent to translateAnalysis.
p1_handleLanguageChange_langSaved ==
    \E t \in TaskSet :
        /\ t.op = "handleLanguageChange" /\ t.pc = "langSaved"
        /\ selectedLanguage' = t.target
        /\ UNCHANGED <<capturedPhotos, selectedPhoto, aiAnalysis, isSelectionMode,
                       selectedPhotos, showDeleteConfirmation, analysisCache, camVars,
                       storeVars, ops>>
        /\ IF t.photo # Null /\ t.text # Null
           THEN /\ isAnalyzing' = TRUE
                /\ Continue(t, [Touch(t) EXCEPT !.pc = "translating",
                                                !.reqs = Append(t.reqs, "translate")])
           ELSE /\ UNCHANGED isAnalyzing
                /\ Continue(t, p1_toTranslateAll(t))

\* translateAnalysis when the translate request returns.
p1_translateAnalysis_translated ==
    \E t \in TaskSet, outcome \in Outcomes :
        /\ t.op = "handleLanguageChange" /\ t.pc = "translating"
        /\ UNCHANGED <<capturedPhotos, selectedPhoto, selectedLanguage, isSelectionMode,
                       selectedPhotos, showDeleteConfirmation, analysisCache, camVars,
                       storeVars, ops>>
        /\ IF outcome = "throw"
           THEN /\ isAnalyzing' = FALSE
                /\ UNCHANGED aiAnalysis
                /\ ContinueWith(t, p1_toTranslateAll(t),
                                [Report([t EXCEPT !.outcome = outcome],
                                        ErrorText(t.photo.uri))
                                    EXCEPT !.op = "translateAnalysis"])
           ELSE /\ aiAnalysis' = TranslatedText(t.text, t.target, outcome)
                /\ UNCHANGED isAnalyzing
                /\ Continue(t, [Touch(t) EXCEPT
                        !.pc = "saving",
                        !.outcome = outcome,
                        !.result = TranslatedText(t.text, t.target, outcome),
                        !.got = stAnalyses])

\* saveAnalysisForPhoto(selectedPhoto.uri, translatedText) after its getItem.
p1_translateAnalysis_saving ==
    \E t \in TaskSet :
        /\ t.op = "handleLanguageChange" /\ t.pc = "saving"
        /\ stAnalyses' = p1_saveAnalysisForPhoto(t.got, t.photo.uri, t.lang, t.result)
        /\ UNCHANGED <<uiVars, analysisCache, camVars, stPhotos, stCache, stRecords,
                       stLanguage, ops>>
        /\ Continue(t, [Touch(t) EXCEPT !.pc = "saved"])

\* translateAnalysis returns (finally: setIsAnalyzing(false)) and
\* handleLanguageChange calls translateAllCachedAnalyses.
p1_translateAnalysis_saved ==
    \E t \in TaskSet :
        /\ t.op = "handleLanguageChange" /\ t.pc = "saved"
        /\ isAnalyzing' = FALSE
        /\ UNCHANGED <<capturedPhotos, selectedPhoto, aiAnalysis, selectedLanguage,
                       isSelectionMode, selectedPhotos, showDeleteConfirmation,
                       analysisCache, camVars, storeVars, ops>>
        /\ ContinueWith(t, p1_toTranslateAll(t),
                        [Report(t, t.result) EXCEPT !.op = "translateAnalysis"])

\* translateAllCachedAnalyses: the uris it extracts from the keys.
p1_photoUris(analyses) == {SplitFirst(k) : k \in DOMAIN analyses}

\* translateAllCachedAnalyses: the keys `find` can return as sourceKey.
p1_sourceKeys(analyses, uri, targetLanguage) ==
    {k \in DOMAIN analyses : StartsWith(k, uri) /\ ~EndsWith(k, targetLanguage)}

\* translateAllCachedAnalyses: the uris for which a background translation starts.
p1_toTranslate(analyses, targetLanguage) ==
    {uri \in p1_photoUris(analyses) :
        /\ ~Has(analyses, KeyOf(uri, targetLanguage))
        /\ p1_sourceKeys(analyses, uri, targetLanguage) # {}}

\* translateAnalysisInBackground(text, imageUri, targetLanguage), which runs up
\* to its translate request when it is called.
p1_background(t, text, imageUri) ==
    [op |-> "translateAnalysisInBackground", pc |-> "translating", lang |-> t.lang,
     uri |-> imageUri, got |-> Absent, text |-> text, result |-> Null,
     target |-> t.target, photo |-> Null, outcome |-> "none",
     pre |-> StoreView, seen |-> StoreView,
     clean |-> TRUE, reqs |-> <<"translate">>]

\* translateAllCachedAnalyses after its getItem: one background translation
\* is started per uri that lacks the target language; handleLanguageChange
\* does not await them and returns.
p1_translateAllCachedAnalyses ==
    \E t \in TaskSet :
        /\ t.op = "handleLanguageChange" /\ t.pc = "allLoaded"
        /\ UNCHANGED <<uiVars, analysisCache, camVars, storeVars, ops>>
        /\ IF ~t.got.present
           THEN Finish(t, Report(t, {}))
           ELSE \E src \in [p1_toTranslate(t.got.val, t.target) -> DOMAIN t.got.val] :
                  /\ \A uri \in DOMAIN src :
                        src[uri] \in p1_sourceKeys(t.got.val, uri, t.target)
                  /\ tasks' = Retire(tasks, t) (+)
                        SetToBag({p1_background(t, t.got.val[src[uri]], uri) :
                                    uri \in DOMAIN src})
                  /\ done' = Report(t, DOMAIN src)

\* translateAnalysisInBackground when its translate request returns.
p1_translateAnalysisInBackground_translated ==
    \E t \in TaskSet, outcome \in Outcomes :
        /\ t.op = "translateAnalysisInBackground" /\ t.pc = "translating"
        /\ UNCHANGED <<uiVars, analysisCache, camVars, storeVars, ops>>
        /\ IF outcome = "throw"
           THEN Finish(t, Report([t EXCEPT !.outcome = outcome], Null))
           ELSE Continue(t, [Touch(t) EXCEPT
                        !.pc = "saving",
                        !.outcome = outcome,
                        !.result = TranslatedText(t.text, t.target, outcome),
                        !.got = stAnalyses])

\* saveAnalysisForPhoto(imageUri, translatedText) after its getItem.
p1_translateAnalysisInBackground_saving ==
    \E t \in TaskSet :
        /\ t.op = "translateAnalysisInBackground" /\ t.pc = "saving"
        /\ stAnalyses' = p1_saveAnalysisForPhoto(t.got, t.uri, t.lang, t.result)
        /\ UNCHANGED <<uiVars, analysisCache, camVars, stPhotos, stCache, stRecords,
                       stLanguage, ops>>
        /\ Finish(t, Report(t, t.result))

\* togglePhotoSelection(photo): the Set<PhotoItem> with the object toggled.
p1_togglePhotoSelection(selected, photo) ==
    IF photo \in selected THEN selected \ {photo} ELSE selected \cup {photo}

\* renderItem onPress in selection mode.
p1_pressItem ==
    \E item \in SeqToSet(capturedPhotos) :
        /\ GridVisible /\ isSelectionMode
        /\ selectedPhotos' = p1_togglePhotoSelection(selectedPhotos, item)
        /\ done' = NoOp
        /\ UNCHANGED <<capturedPhotos, selectedPhoto, aiAnalysis, isAnalyzing,
                       selectedLanguage, isSelectionMode, showDeleteConfirmation,
                       analysisCache, camVars, storeVars, tasks, ops>>

\* renderItem onLongPress.
p1_longPressItem ==
    \E item \in SeqToSet(capturedPhotos) :
        /\ GridVisible /\ ~isSelectionMode
        /\ isSelectionMode' = TRUE
        /\ selectedPhotos' = p1_togglePhotoSelection(selectedPhotos, item)
        /\ done' = NoOp
        /\ UNCHANGED <<capturedPhotos, selectedPhoto, aiAnalysis, isAnalyzing,
                       selectedLanguage, showDeleteConfirmation, analysisCache,
                       camVars, storeVars, tasks, ops>>

\* toggleSelectionMode (the header's Select / Cancel button).
p1_toggleSelectionMode ==
    /\ GridVisible /\ capturedPhotos # <<>>
    /\ isSelectionMode' = ~isSelectionMode
    /\ selectedPhotos' = IF isSelectionMode THEN {} ELSE selectedPhotos
    /\ done' = NoOp
    /\ UNCHANGED <<capturedPhotos, selectedPhoto, aiAnalysis, isAnalyzing,
                   selectedLanguage, showDeleteConfirmation, analysisCache, camVars,
                   storeVars, tasks, ops>>

\* The header's Delete button: setShowDeleteConfirmation(true).
p1_pressDelete ==
    /\ GridVisible /\ isSelectionMode
    /\ showDeleteConfirmation' = TRUE
    /\ done' = NoOp
    /\ UNCHANGED <<capturedPhotos, selectedPhoto, aiAnalysis, isAnalyzing,
                   selectedLanguage, isSelectionMode, selectedPhotos, analysisCache,
                   camVars, storeVars, tasks, ops>>

\* The confirmation dialog's Cancel button: setShowDeleteConfirmation(false).
p1_cancelDelete ==
    /\ showDeleteConfirmation
    /\ showDeleteConfirmation' = FALSE
    /\ done' = NoOp
    /\ UNCHANGED <<capturedPhotos, selectedPhoto, aiAnalysis, isAnalyzing,
                   selectedLanguage, isSelectionMode, selectedPhotos, analysisCache,
                   camVars, storeVars, tasks, ops>>

\* deleteSelectedPhotos: the photos it keeps. `selectedPhotos.has(photo)`
\* compares objects.
p1_updatedPhotos(photos, selected) == Filter(photos, SeqToSet(photos) \ selected)

\* savePhotosToStorage(photos)
p1_savePhotosToStorage(photos) == Item(UrisOf(photos))

\* The confirmation dialog's Delete button: deleteSelectedPhotos up to its
\* first await (the getItem of deleteAnalysesForPhoto for the first selected
\* photo, or the setItem of savePhotosToStorage when nothing is selected).
p1_deleteSelectedPhotos ==
    /\ CanInvoke
    /\ showDeleteConfirmation
    /\ capturedPhotos' = p1_updatedPhotos(capturedPhotos, selectedPhotos)
    /\ UNCHANGED <<selectedPhoto, aiAnalysis, isAnalyzing, selectedLanguage,
                   isSelectionMode, selectedPhotos, showDeleteConfirmation,
                   analysisCache, camVars, stAnalyses, stCache, stRecords, stLanguage>>
    /\ IF selectedPhotos = {}
       THEN /\ stPhotos' = p1_savePhotosToStorage(capturedPhotos')
            /\ Begin(NewTask("deleteSelectedPhotos", "photosSaved", selectedLanguage,
                             <<>>, Absent)
                     @@ [photos |-> capturedPhotos', sel |-> selectedPhotos, todo |-> {}])
       ELSE /\ UNCHANGED stPhotos
            /\ \E photo \in selectedPhotos :
                 Begin(NewTask("deleteSelectedPhotos", "deleting", selectedLanguage,
                               photo.uri, stAnalyses)
                       @@ [photos |-> capturedPhotos', sel |-> selectedPhotos,
                           todo |-> selectedPhotos \ {photo}])

\* deleteAnalysesForPhoto(photo.uri) after its getItem: the keys that start
\* with the uri are removed and the map is written back.
p1_deleteSelectedPhotos_deleting ==
    \E t \in TaskSet :
        /\ t.op = "deleteSelectedPhotos" /\ t.pc = "deleting"
        /\ stAnalyses' = p1_deleteAnalysesForPhoto(t.got, stAnalyses, t.uri)
        /\ UNCHANGED <<uiVars, analysisCache, camVars, stPhotos, stCache, stRecords,
                       stLanguage, ops>>
        /\ Continue(t, [Touch(t) EXCEPT !.pc = "deleted"])

\* deleteSelectedPhotos after `await deleteAnalysesForPhoto`: the next
\* selected photo, or savePhotosToStorage(updatedPhotos).
p1_deleteSelectedPhotos_deleted ==
    \E t \in TaskSet :
        /\ t.op = "deleteSelectedPhotos" /\ t.pc = "deleted"
        /\ UNCHANGED <<uiVars, analysisCache, camVars, stAnalyses, stCache, stRecords,
                       stLanguage, ops>>
        /\ IF t.todo = {}
           THEN /\ stPhotos' = p1_savePhotosToStorage(t.photos)
                /\ Continue(t, [Touch(t) EXCEPT !.pc = "photosSaved"])
           ELSE /\ UNCHANGED stPhotos
                /\ \E photo \in t.todo :
                     Continue(t, [Touch(t) EXCEPT !.pc = "deleting", !.uri = photo.uri,
                                                  !.got = stAnalyses,
                                                  !.todo = t.todo \ {photo}])

\* deleteSelectedPhotos after `await savePhotosToStorage`: the selection
\* state is reset.
p1_deleteSelectedPhotos_photosSaved ==
    \E t \in TaskSet :
        /\ t.op = "deleteSelectedPhotos" /\ t.pc = "photosSaved"
        /\ selectedPhotos' = {}
        /\ isSelectionMode' = FALSE
        /\ showDeleteConfirmation' = FALSE
        /\ UNCHANGED <<capturedPhotos, selectedPhoto, aiAnalysis, isAnalyzing,
                       selectedLanguage, analysisCache, camVars, storeVars, ops>>
        /\ Finish(t, Report(t, Null))

(***************************************************************************)
(* The state after construction.  The store is what earlier sessions left: *)
(* the camera tab has saved some photos (or none), and no analysis yet.    *)
(***************************************************************************)
InitPhotoLists == {SubSeq(UriPool, 1, n) : n \in 0..Min(MaxPhotos, Len(UriPool))}

InitUI ==
    /\ capturedPhotos = <<>>
    /\ selectedPhoto = Null
    /\ aiAnalysis = Null
    /\ isAnalyzing = FALSE
    /\ selectedLanguage = en
    /\ isSelectionMode = FALSE
    /\ selectedPhotos = {}
    /\ showDeleteConfirmation = FALSE
    /\ analysisCache = EmptyMap
    /\ camPhotos = <<>>
    /\ ops = 0
    /\ done = NoOp

InitStore ==
    /\ stPhotos \in {Absent} \cup {Item(l) : l \in InitPhotoLists}
    /\ stAnalyses = Absent
    /\ stCache = Absent
    /\ stRecords = EmptyMap
    /\ stLanguage = Absent
    /\ created = IF stPhotos.present THEN Len(stPhotos.val) ELSE 0

\* The Detail screen alone: the camera tab stays idle.
Init == InitUI /\ InitStore /\ tasks = EmptyBag

NextP1 ==
    \/ p1_loadSavedPhotos
    \/ p1_loadSavedPhotos_getPhotos
    \/ p1_loadLanguagePreference
    \/ p1_openPhoto
    \/ p1_openPhoto_loaded
    \/ p1_closePhoto
    \/ p1_analyzeImage
    \/ p1_analyzeImage_loaded
    \/ p1_analyzeImage_optimized
    \/ p1_analyzeImage_described
    \/ p1_analyzeImage_saving
    \/ p1_analyzeImage_saved
    \/ p1_handleLanguageChange
    \/ p1_handleLanguageChange_langSaved
    \/ p1_translateAnalysis_translated
    \/ p1_translateAnalysis_saving
    \/ p1_translateAnalysis_saved
    \/ p1_translateAllCachedAnalyses
    \/ p1_translateAnalysisInBackground_translated
    \/ p1_translateAnalysisInBackground_saving
    \/ p1_pressItem
    \/ p1_longPressItem
    \/ p1_toggleSelectionMode
    \/ p1_pressDelete
    \/ p1_cancelDelete
    \/ p1_deleteSelectedPhotos
    \/ p1_deleteSelectedPhotos_deleting
    \/ p1_deleteSelectedPhotos_deleted
    \/ p1_deleteSelectedPhotos_photosSaved

\* The `analyses`-map revision of the Detail screen (src/unnamed/part_001).
SpecP1 == Init /\ [][NextP1]_vars

(***************************************************************************)
(* Properties of the `analyses`-map revision (src/unnamed/part_001).       *)
(***************************************************************************)
\* The item "analyses" as it was when the reported invocation was called.
PreAnalyses(d) == d.task.pre[2]

HasAnalysis(item, uri, lang) == item.present /\ Has(item.val, KeyOf(uri, lang))

\* C2: when deleteSelectedPhotos has returned, and no other invocation wrote
\* to the store while it ran, the persisted "analyses" map has no entry
\* `<uri>_<language>` for any selected photo and any of en, es, ru.
C2_CascadeDelete ==
    (done.op = "deleteSelectedPhotos" /\ done.clean) =>
        \A photo \in done.task.sel, lang \in languages :
            ~HasAnalysis(stAnalyses, photo.uri, lang)

\* C2 happens: a deletion returned whose selection held a photo with a stored
\* analysis.
C2_Witness ==
    /\ done.op = "deleteSelectedPhotos" /\ done.clean
    /\ \E photo \in done.task.sel, lang \in languages :
            HasAnalysis(PreAnalyses(done), photo.uri, lang)

\* C3: analyzeImage(uri) called with selected language es, an analysis stored
\* for (uri, en) and none for (uri, es), issues a translate request and no
\* describe request, and when it returns a text the map has `<uri>_es`.
C3_FallbackTranslates ==
    (/\ done.op = "analyzeImage" /\ done.clean
     /\ done.task.lang = es
     /\ HasAnalysis(PreAnalyses(done), done.task.uri, en)
     /\ ~HasAnalysis(PreAnalyses(done), done.task.uri, es))
    => /\ "translate" \in SeqToSet(done.task.reqs)
       /\ "describe" \notin SeqToSet(done.task.reqs)
       /\ (done.result # Null => HasAnalysis(stAnalyses, done.task.uri, es))

\* C4: when a language change from L1 to L2 # L1 has translated the displayed
\* analysis of the open photo, the translated text is stored under `<uri>_<L2>`
\* and the entry `<uri>_<L1>` is as it was before the change.
C4_TranslationStoredUnderTarget ==
    (/\ done.op = "translateAnalysis" /\ done.clean
     /\ done.task.outcome # "throw"
     /\ done.task.lang # done.task.target)
    => /\ HasAnalysis(stAnalyses, done.task.photo.uri, done.task.target)
       /\ stAnalyses.val[KeyOf(done.task.photo.uri, done.task.target)] = done.result
       /\ HasAnalysis(stAnalyses, done.task.photo.uri, done.task.lang)
            = HasAnalysis(PreAnalyses(done), done.task.photo.uri, done.task.lang)
       /\ HasAnalysis(stAnalyses, done.task.photo.uri, done.task.lang) =>
            stAnalyses.val[KeyOf(done.task.photo.uri, done.task.lang)]
                = PreAnalyses(done).val[KeyOf(done.task.photo.uri, done.task.lang)]

\* C8 (part_001): an analyzeImage(uri) called with no analysis of uri stored in
\* any language, if it returns a text, has issued exactly one describe request
\* and has stored the text under `<uri>_<language>`; an analyzeImage(uri) called
\* with `<uri>_<language>` stored issues no request and returns the stored text.
C8_AnalyzeTwice_p1 ==
    (done.op = "analyzeImage" /\ done.clean) =>
        /\ (/\ \A lang \in languages : ~HasAnalysis(PreAnalyses(done), done.task.uri, lang)
            /\ done.result # Null)
           => /\ done.task.reqs = <<"describe">>
              /\ HasAnalysis(stAnalyses, done.task.uri, done.task.lang)
              /\ stAnalyses.val[KeyOf(done.task.uri, done.task.lang)] = done.result
        /\ HasAnalysis(PreAnalyses(done), done.task.uri, done.task.lang)
           => /\ done.task.reqs = <<>>
              /\ done.result = PreAnalyses(done).val[KeyOf(done.task.uri, done.task.lang)]

\* C10: when deleteSelectedPhotos has returned, neither the in-memory list nor
\* the persisted list holds a photo with the uri of a selected photo.
C10_SelectedPhotosRemoved ==
    (done.op = "deleteSelectedPhotos" /\ done.clean) =>
        \A photo \in done.task.sel :
            /\ photo.uri \notin SeqToSet(UrisOf(capturedPhotos))
            /\ stPhotos.present => photo.uri \notin SeqToSet(stPhotos.val)

(***************************************************************************)
(* src/app/(tabs)/Detail.tsx: the Detail screen that keeps analyses in the *)
(* in-memory analysisCache and in the AsyncStorage item "analysisCache",   *)
(* both keyed by the SHA-256 digest of `<uri>_<language>`, and in one      *)
(* AsyncStorage item `analysis_<uri>_<language>` per saved analysis.       *)
(***************************************************************************)

\* Crypto.digestStringAsync(SHA256, s): a hex string.  The digest is modelled
\* as collision-free, and as a string over characters that no uri contains
\* (a uri holds ':' and '/', a hex digest does not), so that
\* `key.includes(uri)` is decided as it is on digests.
HexOf ==
    [c \in {"a", "b", "c", "d", "e", "n", "s", "r", "u", "_"} |->
        CASE c = "a" -> "1" [] c = "b" -> "2" [] c = "c" -> "3" [] c = "d" -> "4"
          [] c = "e" -> "5" [] c = "n" -> "6" [] c = "s" -> "7" [] c = "r" -> "8"
          [] c = "u" -> "9" [] c = "_" -> "0"]

digestStringAsync(s) == [i \in 1..Len(s) |-> HexOf[s[i]]]

\* The imageHash of a photo and a language.
HashOf(uri, lang) == digestStringAsync(KeyOf(uri, lang))

\* The names of the AsyncStorage items.
analysisPrefix == <<"a", "n", "a", "l", "y", "s", "i", "s", "_">>
analysisCacheKey == <<"a", "n", "a", "l", "y", "s", "i", "s", "C", "a", "c", "h", "e">>
capturedPhotosKey == <<"c", "a", "p", "t", "u", "r", "e", "d", "P", "h", "o", "t", "o", "s">>
selectedLanguageKey == <<"s", "e", "l", "e", "c", "t", "e", "d", "L", "a", "n", "g", "u", "a", "g", "e">>

\* `analysis_${imageUri}_${selectedLanguage}`
RecordKey(uri, lang) == analysisPrefix \o uri \o <<"_">> \o lang

\* AsyncStorage.getAllKeys()
getAllKeys ==
    (DOMAIN stRecords)
        \cup (IF stCache.present THEN {analysisCacheKey} ELSE {})
        \cup (IF stPhotos.present THEN {capturedPhotosKey} ELSE {})
        \cup (IF stLanguage.present THEN {selectedLanguageKey} ELSE {})

\* analyzeImage: `response.choices[0].message.content || "No analysis available"`.
analysisResult(uri, lang, outcome) ==
    IF outcome = "content" THEN DescribeResult(uri, lang) ELSE Placeholder(uri, lang)

\* A request handler that goes on to save whatever happened to the request.
savesResponse_always(outcome) == TRUE

\* A request handler that drops the response when the photo modal was closed
\* in the meantime.
savesResponse_whileOpen(outcome) == outcome # "throw" /\ selectedPhoto # Null

\* analyzeImage, translateAnalysis: the statements after the awaited request
\* (the save among them) run when the request did not throw.
savesResponse(outcome) == outcome # "throw"

\* saveAnalysisToStorage: `{ ...JSON.parse(existingCache), [imageHash]: analysis }`
cacheToSave(got, imageHash, analysis) ==
    Item(Put(IF got.present THEN got.val ELSE EmptyMap, imageHash, analysis))

\* saveAnalysisToStorage: the item `analysis_<uri>_<selectedLanguage>` it sets.
analysisData(records, imageUri, lang, analysis) ==
    Put(records, RecordKey(imageUri, lang), [text |-> analysis, language |-> lang])

\* loadSavedPhotos is called when the screen gains focus.
loadSavedPhotos ==
    /\ CanInvoke
    /\ UNCHANGED <<uiVars, analysisCache, camVars, storeVars>>
    /\ Begin(NewTask("loadSavedPhotos", "getPhotos", selectedLanguage, <<>>, stPhotos))

\* loadSavedPhotos after `await AsyncStorage.getItem("capturedPhotos")`.
loadSavedPhotos_getPhotos ==
    \E t \in TaskSet :
        /\ t.op = "loadSavedPhotos" /\ t.pc = "getPhotos"
        /\ capturedPhotos' = IF t.got.present THEN ParsePhotos(t.got.val, 0)
                             ELSE capturedPhotos
        /\ UNCHANGED <<selectedPhoto, aiAnalysis, isAnalyzing, selectedLanguage,
                       isSelectionMode, selectedPhotos, showDeleteConfirmation,
                       analysisCache, camVars, storeVars, ops>>
        /\ Continue(t, [Touch(t) EXCEPT !.pc = "getCache", !.got = stCache])

\* loadAnalysisCache after its getItem: `{ ...analysisCache.current, ...parsedCache }`.
loadAnalysisCache ==
    \E t \in TaskSet :
        /\ t.op = "loadSavedPhotos" /\ t.pc = "getCache"
        /\ analysisCache' =
              IF Parses(t.got)
              THEN [h \in (DOMAIN analysisCache) \cup (DOMAIN t.got.val) |->
                      IF h \in DOMAIN t.got.val THEN t.got.val[h] ELSE analysisCache[h]]
              ELSE analysisCache
        /\ UNCHANGED <<uiVars, camVars, storeVars, ops>>
        /\ Continue(t, [Touch(t) EXCEPT !.pc = "getLanguage", !.got = stLanguage])

\* loadLanguagePreference after its getItem.
loadLanguagePreference ==
    \E t \in TaskSet :
        /\ t.op = "loadSavedPhotos" /\ t.pc = "getLanguage"
        /\ selectedLanguage' = IF t.got.present THEN t.got.val ELSE selectedLanguage
        /\ UNCHANGED <<capturedPhotos, selectedPhoto, aiAnalysis, isAnalyzing,
                       isSelectionMode, selectedPhotos, showDeleteConfirmation,
                       analysisCache, camVars, storeVars, ops>>
        /\ Finish(t, Report(t, Null))

\* renderItem onPress outside selection mode: openPhoto(item) up to the
\* awaited digest.
openPhoto ==
    \E item \in SeqToSet(capturedPhotos) :
        /\ CanInvoke /\ GridVisible /\ ~isSelectionMode
        /\ aiAnalysis' = Null
        /\ selectedPhoto' = item
        /\ UNCHANGED <<capturedPhotos, isAnalyzing, selectedLanguage, isSelectionMode,
                       selectedPhotos, showDeleteConfirmation, analysisCache, camVars,
                       storeVars>>
        /\ Begin(NewTask("openPhoto", "hashed", selectedLanguage, item.uri, Absent))

\* openPhoto after the digest: the in-memory cache, then the getItem of
\* "analysisCache".
openPhoto_hashed ==
    \E t \in TaskSet :
        /\ t.op = "openPhoto" /\ t.pc = "hashed"
        /\ UNCHANGED <<capturedPhotos, selectedPhoto, isAnalyzing, selectedLanguage,
                       isSelectionMode, selectedPhotos, showDeleteConfirmation,
                       analysisCache, camVars, storeVars, ops>>
        /\ IF Has(analysisCache, HashOf(t.uri, t.lang))
           THEN /\ aiAnalysis' = analysisCache[HashOf(t.uri, t.lang)]
                /\ Finish(t, Report(t, aiAnalysis'))
           ELSE /\ UNCHANGED aiAnalysis
                /\ Continue(t, [Touch(t) EXCEPT !.pc = "loaded", !.got = stCache])

\* openPhoto after `await AsyncStorage.getItem("analysisCache")`; the catch
\* logs the error of JSON.parse and the photo stays without analysis.
openPhoto_loaded ==
    \E t \in TaskSet :
        /\ t.op = "openPhoto" /\ t.pc = "loaded"
        /\ UNCHANGED <<capturedPhotos, selectedPhoto, isAnalyzing, selectedLanguage,
                       isSelectionMode, selectedPhotos, showDeleteConfirmation,
                       camVars, storeVars, ops>>
        /\ IF Parses(t.got) /\ Has(t.got.val, HashOf(t.uri, t.lang))
           THEN /\ analysisCache' = Put(analysisCache, HashOf(t.uri, t.lang),
                                        t.got.val[HashOf(t.uri, t.lang)])
                /\ aiAnalysis' = t.got.val[HashOf(t.uri, t.lang)]
                /\ Finish(t, Report(t, aiAnalysis'))
           ELSE /\ UNCHANGED <<analysisCache, aiAnalysis>>
                /\ Finish(t, Report(t, Null))

\* closePhoto
closePhoto ==
    /\ selectedPhoto # Null
    /\ selectedPhoto' = Null
    /\ aiAnalysis' = Null
    /\ done' = NoOp
    /\ UNCHANGED <<capturedPhotos, isAnalyzing, selectedLanguage, isSelectionMode,
                   selectedPhotos, showDeleteConfirmation, analysisCache, camVars,
                   storeVars, tasks, ops>>

\* The "Analyze Image" button (disabled while isAnalyzing): analyzeImage up to
\* the awaited digest.
analyzeImage ==
    /\ CanInvoke
    /\ selectedPhoto # Null /\ ~isAnalyzing
    /\ isAnalyzing' = TRUE
    /\ aiAnalysis' = Null
    /\ UNCHANGED <<capturedPhotos, selectedPhoto, selectedLanguage, isSelectionMode,
                   selectedPhotos, showDeleteConfirmation, analysisCache, camVars,
                   storeVars>>
    /\ Begin(NewTask("analyzeImage", "hashed", selectedLanguage, selectedPhoto.uri, Absent))

\* The timer analyzeImage starts on an in-memory hit (setTimeout, 500 ms).
cacheHitTimer(t) ==
    [op |-> "cacheHitTimer", pc |-> "waiting", uri |-> t.uri, lang |-> t.lang]

\* analyzeImage after the digest: on an in-memory hit it starts the timer and
\* returns the cached text; otherwise it reads "analysisCache".
analyzeImage_hashed ==
    \E t \in TaskSet :
        /\ t.op = "analyzeImage" /\ t.pc = "hashed"
        /\ UNCHANGED <<uiVars, analysisCache, camVars, storeVars, ops>>
        /\ IF Has(analysisCache, HashOf(t.uri, t.lang))
           THEN /\ tasks' = Spawn(Retire(tasks, t), cacheHitTimer(t))
                /\ done' = Report(t, analysisCache[HashOf(t.uri, t.lang)])
           ELSE Continue(t, [Touch(t) EXCEPT !.pc = "checking", !.got = stCache])

\* A timer that shows the cached text and leaves isAnalyzing as it is.
analyzeImage_cacheHitTimer_showOnly ==
    \E t \in TaskSet :
        /\ t.op = "cacheHitTimer"
        /\ aiAnalysis' = IF Has(analysisCache, HashOf(t.uri, t.lang))
                         THEN analysisCache[HashOf(t.uri, t.lang)] ELSE Null
        /\ UNCHANGED <<capturedPhotos, selectedPhoto, isAnalyzing, selectedLanguage,
                       isSelectionMode, selectedPhotos, showDeleteConfirmation,
                       analysisCache, camVars, storeVars, ops>>
        /\ Finish(t, NoOp)

\* The timer fires: `setAiAnalysis(analysisCache.current[imageHash])`.
analyzeImage_cacheHitTimer ==
    \E t \in TaskSet :
        /\ t.op = "cacheHitTimer"
        /\ aiAnalysis' = IF Has(analysisCache, HashOf(t.uri, t.lang))
                         THEN analysisCache[HashOf(t.uri, t.lang)] ELSE Null
        /\ isAnalyzing' = FALSE
        /\ UNCHANGED <<capturedPhotos, selectedPhoto, selectedLanguage, isSelectionMode,
                       selectedPhotos, showDeleteConfirmation, analysisCache, camVars,
                       storeVars, ops>>
        /\ Finish(t, NoOp)

\* analyzeImage after `await AsyncStorage.getItem("analysisCache")`; when
\* JSON.parse throws, the inner catch logs it and the API call follows.
analyzeImage_checked ==
    \E t \in TaskSet :
        /\ t.op = "analyzeImage" /\ t.pc = "checking"
        /\ UNCHANGED <<capturedPhotos, selectedPhoto, selectedLanguage, isSelectionMode,
                       selectedPhotos, showDeleteConfirmation, camVars, storeVars, ops>>
        /\ IF Parses(t.got) /\ Has(t.got.val, HashOf(t.uri, t.lang))
           THEN /\ analysisCache' = Put(analysisCache, HashOf(t.uri, t.lang),
                                        t.got.val[HashOf(t.uri, t.lang)])
                /\ aiAnalysis' = t.got.val[HashOf(t.uri, t.lang)]
                /\ isAnalyzing' = FALSE
                /\ Finish(t, Report(t, aiAnalysis'))
           ELSE /\ UNCHANGED <<analysisCache, aiAnalysis, isAnalyzing>>
                /\ Continue(t, [Touch(t) EXCEPT !.pc = "optimizing"])

\* analyzeImage after manipulateAsync, the API key check, fetch and the
\* FileReader: the describe request is sent, or one of them throws (the outer
\* catch; a missing API key is one of these), or the reader reports an error.
\* The task notes the photo the modal shows when the request is sent.
analyzeImage_optimized ==
    \E t \in TaskSet, how \in {"sent", "threw", "readerError"} :
        /\ t.op = "analyzeImage" /\ t.pc = "optimizing"
        /\ UNCHANGED <<capturedPhotos, selectedPhoto, selectedLanguage, isSelectionMode,
                       selectedPhotos, showDeleteConfirmation, analysisCache, camVars,
                       storeVars, ops>>
        /\ IF how = "sent"
           THEN /\ UNCHANGED <<aiAnalysis, isAnalyzing>>
                /\ Continue(t, [Touch(t) EXCEPT !.pc = "describing",
                                                !.photo = selectedPhoto,
                                                !.reqs = Append(t.reqs, "describe")])
           ELSE /\ aiAnalysis' = ErrorText(t.uri)
                /\ isAnalyzing' = FALSE
                /\ Finish(t, Report(t, IF how = "readerError" THEN Rejected ELSE Null))

\* saveAnalysisToStorage up to its getItem: the in-memory cache is updated.
toSaving(t, imageHash, analysis) ==
    [Touch(t) EXCEPT !.pc = "saving", !.result = analysis, !.got = stCache]

\* A handler that logs the error of the describe request and lets the promise
\* resolve without a value.
analyzeImage_catch_swallowed(imageUri) == [aiAnalysis |-> Null, result |-> Null]

\* analyzeImage, the catch around the describe request:
\* setAiAnalysis(`Error analyzing image: ${error.message}`), reject(error).
analyzeImage_catch(imageUri) == [aiAnalysis |-> ErrorText(imageUri), result |-> Rejected]

\* analyzeImage when the describe request returns.
analyzeImage_described ==
    \E t \in TaskSet, outcome \in Outcomes :
        /\ t.op = "analyzeImage" /\ t.pc = "describing"
        /\ UNCHANGED <<capturedPhotos, selectedPhoto, selectedLanguage, isSelectionMode,
                       selectedPhotos, showDeleteConfirmation, camVars, storeVars, ops>>
        /\ IF savesResponse(outcome)
           THEN /\ analysisCache' = Put(analysisCache, HashOf(t.uri, t.lang),
                                        analysisResult(t.uri, t.lang, outcome))
                /\ UNCHANGED <<aiAnalysis, isAnalyzing>>
                /\ Continue(t, [toSaving(t, HashOf(t.uri, t.lang),
                                         analysisResult(t.uri, t.lang, outcome))
                                  EXCEPT !.outcome = outcome])
           ELSE /\ aiAnalysis' = analyzeImage_catch(t.uri).aiAnalysis
                /\ isAnalyzing' = FALSE
                /\ UNCHANGED analysisCache
                /\ Finish(t, Report([t EXCEPT !.outcome = outcome],
                                    analyzeImage_catch(t.uri).result))

\* The imageHash an invocation saves under: analyzeImage hashes
\* `<imageUri>_<selectedLanguage>`, the translations `<uri>_<targetLanguage>`.
imageHash(t) == HashOf(t.uri, t.target)

\* saveAnalysisToStorage(imageUri, analysis, imageHash) after its getItem: the
\* merged map is written to "analysisCache".  When JSON.parse throws on the
\* item, the catch logs it and neither setItem runs.
saveAnalysisToStorage_cache ==
    \E t \in TaskSet :
        /\ t.op \in {"analyzeImage", "changeLanguage", "translateAnalysisInBackground"}
        /\ t.pc = "saving"
        /\ UNCHANGED <<uiVars, analysisCache, camVars, stPhotos, stAnalyses, stRecords,
                       stLanguage, ops>>
        /\ IF t.got.present /\ ~Parses(t.got)
           THEN /\ UNCHANGED stCache
                /\ Continue(t, [Touch(t) EXCEPT !.pc = "saved"])
           ELSE /\ stCache' = cacheToSave(t.got, imageHash(t), t.result)
                /\ Continue(t, [Touch(t) EXCEPT !.pc = "cacheSaved"])

\* saveAnalysisToStorage after the first setItem: the item
\* `analysis_<imageUri>_<selectedLanguage>` is written, selectedLanguage being
\* the one of the render the calling handler belongs to.
saveAnalysisToStorage_record ==
    \E t \in TaskSet :
        /\ t.op \in {"analyzeImage", "changeLanguage", "translateAnalysisInBackground"}
        /\ t.pc = "cacheSaved"
        /\ stRecords' = analysisData(stRecords, t.uri, t.lang, t.result)
        /\ UNCHANGED <<uiVars, analysisCache, camVars, stPhotos, stAnalyses, stCache,
                       stLanguage, ops>>
        /\ Continue(t, [Touch(t) EXCEPT !.pc = "saved"])

\* analyzeImage after `await saveAnalysisToStorage`: setAiAnalysis, resolve,
\* finally setIsAnalyzing(false).
analyzeImage_saved ==
    \E t \in TaskSet :
        /\ t.op = "analyzeImage" /\ t.pc = "saved"
        /\ aiAnalysis' = t.result
        /\ isAnalyzing' = FALSE
        /\ UNCHANGED <<capturedPhotos, selectedPhoto, selectedLanguage, isSelectionMode,
                       selectedPhotos, showDeleteConfirmation, analysisCache, camVars,
                       storeVars, ops>>
        /\ Finish(t, Report(t, t.result))

\* The language menu of the photo modal: changeLanguage(language) up to
\* `await saveLanguagePreference(language)`.  Choosing the selected language
\* only closes the menu.
changeLanguage ==
    \E language \in languages \ {selectedLanguage} :
        /\ CanInvoke
        /\ selectedPhoto # Null
        /\ selectedLanguage' = language
        /\ stLanguage' = Item(language)
        /\ UNCHANGED <<capturedPhotos, selectedPhoto, aiAnalysis, isAnalyzing,
                       isSelectionMode, selectedPhotos, showDeleteConfirmation,
                       analysisCache, camVars, stPhotos, stAnalyses, stCache, stRecords>>
        /\ Begin([NewTask("changeLanguage", "langSaved", selectedLanguage,
                          selectedPhoto.uri, Absent)
                    EXCEPT !.target = language, !.photo = selectedPhoto,
                           !.text = aiAnalysis])

\* translateAllCachedAnalyses(targetLanguage) starts with getAllCachedAnalyses,
\* which awaits AsyncStorage.getAllKeys().
toTranslateAll(t) == [Touch(t) EXCEPT !.pc = "allKeys", !.got = Item(getAllKeys)]

\* changeLanguage after saveLanguagePreference: a displayed text of the open
\* photo is sent to translateAnalysis (setIsAnalyzing(true), the request).
changeLanguage_langSaved ==
    \E t \in TaskSet :
        /\ t.op = "changeLanguage" /\ t.pc = "langSaved"
        /\ UNCHANGED <<capturedPhotos, selectedPhoto, aiAnalysis, selectedLanguage,
                       isSelectionMode, selectedPhotos, showDeleteConfirmation,
                       analysisCache, camVars, storeVars, ops>>
        /\ IF t.photo # Null /\ t.text # Null
           THEN /\ isAnalyzing' = TRUE
                /\ Continue(t, [Touch(t) EXCEPT !.pc = "translating",
                                                !.reqs = Append(t.reqs, "translate")])
           ELSE /\ UNCHANGED isAnalyzing
                /\ Continue(t, toTranslateAll(t))

\* translateAnalysis when the translate request returns.
translateAnalysis_translated ==
    \E t \in TaskSet, outcome \in Outcomes :
        /\ t.op = "changeLanguage" /\ t.pc = "translating"
        /\ UNCHANGED <<capturedPhotos, selectedPhoto, selectedLanguage, isSelectionMode,
                       selectedPhotos, showDeleteConfirmation, analysisCache, camVars,
                       storeVars, ops>>
        /\ IF savesResponse(outcome)
           THEN /\ aiAnalysis' = TranslatedText(t.text, t.target, outcome)
                /\ UNCHANGED isAnalyzing
                /\ Continue(t, [Touch(t) EXCEPT
                        !.pc = "hashing",
                        !.outcome = outcome,
                        !.result = TranslatedText(t.text, t.target, outcome)])
           ELSE /\ isAnalyzing' = FALSE
                /\ UNCHANGED aiAnalysis
                /\ ContinueWith(t, toTranslateAll(t),
                                [Report([t EXCEPT !.outcome = outcome], ErrorText(t.uri))
                                    EXCEPT !.op = "translateAnalysis"])

\* translateAnalysis and translateAnalysisInBackground after the awaited
\* digest: saveAnalysisToStorage updates the in-memory cache and reads
\* "analysisCache".
translateAnalysis_hashed ==
    \E t \in TaskSet :
        /\ t.op \in {"changeLanguage", "translateAnalysisInBackground"}
        /\ t.pc = "hashing"
        /\ analysisCache' = Put(analysisCache, imageHash(t), t.result)
        /\ UNCHANGED <<uiVars, camVars, storeVars, ops>>
        /\ Continue(t, toSaving(t, imageHash(t), t.result))

\* translateAnalysis returns (finally: setIsAnalyzing(false)) and
\* changeLanguage calls translateAllCachedAnalyses.
translateAnalysis_saved ==
    \E t \in TaskSet :
        /\ t.op = "changeLanguage" /\ t.pc = "saved"
        /\ isAnalyzing' = FALSE
        /\ UNCHANGED <<capturedPhotos, selectedPhoto, aiAnalysis, selectedLanguage,
                       isSelectionMode, selectedPhotos, showDeleteConfirmation,
                       analysisCache, camVars, storeVars, ops>>
        /\ ContinueWith(t, toTranslateAll(t),
                        [Report(t, t.result) EXCEPT !.op = "translateAnalysis"])

\* getAllCachedAnalyses after getAllKeys: the keys that start with "analysis_"
\* are read with multiGet.
getAllCachedAnalyses ==
    \E t \in TaskSet :
        /\ t.op = "changeLanguage" /\ t.pc = "allKeys"
        /\ UNCHANGED <<uiVars, analysisCache, camVars, storeVars, ops>>
        /\ Continue(t, [Touch(t) EXCEPT
                !.pc = "allLoaded",
                !.got = Item([k \in {x \in t.got.val : StartsWith(x, analysisPrefix)}
                                \cap DOMAIN stRecords |-> stRecords[k]])])

\* getAllCachedAnalyses: `key.replace("analysis_", "").split("_")[0]`
uriOfKey(key) == SplitFirst(SubSeq(key, Len(analysisPrefix) + 1, Len(key)))

\* translateAllCachedAnalyses: the cached items a background translation is
\* started for.
analysesToTranslate(cached, targetLanguage) ==
    {k \in DOMAIN cached :
        /\ ~Includes(k, <<"_">> \o targetLanguage)
        /\ cached[k].language # targetLanguage}

\* translateAnalysisInBackground(text, imageUri, targetLanguage), which runs up
\* to its translate request when it is called.
background(t, text, imageUri) ==
    [op |-> "translateAnalysisInBackground", pc |-> "translating", lang |-> t.lang,
     uri |-> imageUri, got |-> Absent, text |-> text, result |-> Null,
     target |-> t.target, photo |-> Null, outcome |-> "none",
     pre |-> StoreView, seen |-> StoreView,
     clean |-> TRUE, reqs |-> <<"translate">>]

\* The background translations of a set of cached items, one per item.
RECURSIVE backgrounds(_, _, _)
backgrounds(t, cached, keys) ==
    IF keys = {} THEN EmptyBag
    ELSE LET k == CHOOSE x \in keys : TRUE
         IN  SetToBag({background(t, cached[k].text, uriOfKey(k))})
                (+) backgrounds(t, cached, keys \ {k})

\* translateAllCachedAnalyses after getAllCachedAnalyses; changeLanguage does
\* not await the background translations and returns.
translateAllCachedAnalyses ==
    \E t \in TaskSet :
        /\ t.op = "changeLanguage" /\ t.pc = "allLoaded"
        /\ UNCHANGED <<uiVars, analysisCache, camVars, storeVars, ops>>
        /\ tasks' = Retire(tasks, t) (+)
              backgrounds(t, t.got.val, analysesToTranslate(t.got.val, t.target))
        /\ done' = Report(t, analysesToTranslate(t.got.val, t.target))

\* translateAnalysisInBackground when its translate request returns.
translateAnalysisInBackground_translated ==
    \E t \in TaskSet, outcome \in Outcomes :
        /\ t.op = "translateAnalysisInBackground" /\ t.pc = "translating"
        /\ UNCHANGED <<uiVars, analysisCache, camVars, storeVars, ops>>
        /\ IF savesResponse(outcome)
           THEN Continue(t, [Touch(t) EXCEPT
                        !.pc = "hashing",
                        !.outcome = outcome,
                        !.result = TranslatedText(t.text, t.target, outcome)])
           ELSE Finish(t, Report([t EXCEPT !.outcome = outcome], Null))

\* translateAnalysisInBackground after `await saveAnalysisToStorage`.
translateAnalysisInBackground_saved ==
    \E t \in TaskSet :
        /\ t.op = "translateAnalysisInBackground" /\ t.pc = "saved"
        /\ UNCHANGED <<uiVars, analysisCache, camVars, storeVars, ops>>
        /\ Finish(t, Report(t, t.result))

\* togglePhotoSelection(uri): the Set<string> with the uri toggled.
togglePhotoSelection(selected, uri) ==
    IF uri \in selected THEN selected \ {uri} ELSE selected \cup {uri}

\* renderItem onPress in selection mode.
pressItem ==
    \E item \in SeqToSet(capturedPhotos) :
        /\ GridVisible /\ isSelectionMode
        /\ selectedPhotos' = togglePhotoSelection(selectedPhotos, item.uri)
        /\ done' = NoOp
        /\ UNCHANGED <<capturedPhotos, selectedPhoto, aiAnalysis, isAnalyzing,
                       selectedLanguage, isSelectionMode, showDeleteConfirmation,
                       analysisCache, camVars, storeVars, tasks, ops>>

\* renderItem onLongPress.
longPressItem ==
    \E item \in SeqToSet(capturedPhotos) :
        /\ GridVisible /\ ~isSelectionMode
        /\ isSelectionMode' = TRUE
        /\ selectedPhotos' = togglePhotoSelection(selectedPhotos, item.uri)
        /\ done' = NoOp
        /\ UNCHANGED <<capturedPhotos, selectedPhoto, aiAnalysis, isAnalyzing,
                       selectedLanguage, showDeleteConfirmation, analysisCache,
                       camVars, storeVars, tasks, ops>>

\* A toggleSelectionMode that leaves the selection as it is.
toggleSelectionMode_keeping ==
    /\ GridVisible /\ capturedPhotos # <<>>
    /\ isSelectionMode' = ~isSelectionMode
    /\ done' = NoOp
    /\ UNCHANGED <<capturedPhotos, selectedPhoto, aiAnalysis, isAnalyzing,
                   selectedLanguage, selectedPhotos, showDeleteConfirmation,
                   analysisCache, camVars, storeVars, tasks, ops>>

\* toggleSelectionMode (the header's Select / Cancel button).
toggleSelectionMode ==
    /\ GridVisible /\ capturedPhotos # <<>>
    /\ isSelectionMode' = ~isSelectionMode
    /\ selectedPhotos' = IF isSelectionMode THEN {} ELSE selectedPhotos
    /\ done' = NoOp
    /\ UNCHANGED <<capturedPhotos, selectedPhoto, aiAnalysis, isAnalyzing,
                   selectedLanguage, showDeleteConfirmation, analysisCache, camVars,
                   storeVars, tasks, ops>>

\* The header's Delete button, shown in selection mode when something is
\* selected: setShowDeleteConfirmation(true).
pressDelete ==
    /\ GridVisible /\ isSelectionMode /\ selectedPhotos # {}
    /\ showDeleteConfirmation' = TRUE
    /\ done' = NoOp
    /\ UNCHANGED <<capturedPhotos, selectedPhoto, aiAnalysis, isAnalyzing,
                   selectedLanguage, isSelectionMode, selectedPhotos, analysisCache,
                   camVars, storeVars, tasks, ops>>

\* The confirmation dialog's Cancel button: setShowDeleteConfirmation(false).
cancelDelete ==
    /\ showDeleteConfirmation
    /\ showDeleteConfirmation' = FALSE
    /\ done' = NoOp
    /\ UNCHANGED <<capturedPhotos, selectedPhoto, aiAnalysis, isAnalyzing,
                   selectedLanguage, isSelectionMode, selectedPhotos, analysisCache,
                   camVars, storeVars, tasks, ops>>

\* deleteSelectedPhotos: `capturedPhotos.filter(photo => !selectedPhotos.has(photo.uri))`
remainingPhotos(photos, selected) ==
    Filter(photos, {photo \in SeqToSet(photos) : photo.uri \notin selected})

\* deleteSelectedPhotos: the keys selected for one uri.
keysToRemove(keys, uri) ==
    {key \in keys : StartsWith(key, analysisPrefix \o uri) \/ key = analysisCacheKey}

\* deleteSelectedPhotos: the entries of a hash-keyed cache it deletes for one
\* uri are those whose key includes the uri.
withoutPhoto(cache, uri) == Without(cache, {key \in DOMAIN cache : Includes(key, uri)})

\* The confirmation dialog's Delete button: deleteSelectedPhotos up to
\* `await AsyncStorage.setItem("capturedPhotos", ...)`.
deleteSelectedPhotos ==
    /\ CanInvoke
    /\ showDeleteConfirmation
    /\ capturedPhotos' = remainingPhotos(capturedPhotos, selectedPhotos)
    /\ stPhotos' = Item(UrisOf(capturedPhotos'))
    /\ UNCHANGED <<selectedPhoto, aiAnalysis, isAnalyzing, selectedLanguage,
                   isSelectionMode, selectedPhotos, showDeleteConfirmation,
                   analysisCache, camVars, stAnalyses, stCache, stRecords, stLanguage>>
    /\ Begin(NewTask("deleteSelectedPhotos", "photosSaved", selectedLanguage, <<>>, Absent)
             @@ [photos |-> capturedPhotos', sel |-> selectedPhotos,
                 todo |-> selectedPhotos])

\* deleteSelectedPhotos: the next turn of `for (const uri of selectedPhotos)`,
\* which awaits getAllKeys, or the return after the last uri.
nextUri(t) ==
    IF t.todo = {}
    THEN Finish(t, Report(t, Null))
    ELSE \E uri \in t.todo :
            Continue(t, [Touch(t) EXCEPT !.pc = "keys", !.uri = uri,
                                         !.got = Item(getAllKeys),
                                         !.todo = t.todo \ {uri}])

\* deleteSelectedPhotos after the setItem: the selection state is reset and
\* the loop over the selected uris starts.
deleteSelectedPhotos_photosSaved ==
    \E t \in TaskSet :
        /\ t.op = "deleteSelectedPhotos" /\ t.pc = "photosSaved"
        /\ selectedPhotos' = {}
        /\ isSelectionMode' = FALSE
        /\ showDeleteConfirmation' = FALSE
        /\ UNCHANGED <<capturedPhotos, selectedPhoto, aiAnalysis, isAnalyzing,
                       selectedLanguage, analysisCache, camVars, storeVars, ops>>
        /\ nextUri(t)

\* deleteSelectedPhotos after getAllKeys: with "analysisCache" among the keys
\* it reads that item; else it removes the keys found, if any.
deleteSelectedPhotos_keys ==
    \E t \in TaskSet :
        /\ t.op = "deleteSelectedPhotos" /\ t.pc = "keys"
        /\ UNCHANGED <<uiVars, analysisCache, camVars, stPhotos, stAnalyses, stCache,
                       stLanguage, ops>>
        /\ IF analysisCacheKey \in keysToRemove(t.got.val, t.uri)
           THEN /\ UNCHANGED stRecords
                /\ Continue(t, [Touch(t) EXCEPT !.pc = "cacheRead", !.got = stCache])
           ELSE /\ stRecords' = Without(stRecords, keysToRemove(t.got.val, t.uri))
                /\ Continue(t, [Touch(t) EXCEPT !.pc = "removed"])

\* deleteSelectedPhotos after getItem("analysisCache"): the map without the
\* entries of the uri is written back.
deleteSelectedPhotos_cacheRead ==
    \E t \in TaskSet :
        /\ t.op = "deleteSelectedPhotos" /\ t.pc = "cacheRead"
        /\ UNCHANGED <<uiVars, analysisCache, camVars, stPhotos, stAnalyses, stRecords,
                       stLanguage, ops>>
        /\ IF t.got.present
           THEN /\ stCache' = Item(withoutPhoto(t.got.val, t.uri))
                /\ Continue(t, [Touch(t) EXCEPT !.pc = "cacheWritten"])
           ELSE /\ UNCHANGED stCache
                /\ Continue(t, [Touch(t) EXCEPT !.pc = "removed"])

\* deleteSelectedPhotos after the setItem of "analysisCache": the in-memory
\* cache is purged the same way and the loop goes on.
deleteSelectedPhotos_cacheWritten ==
    \E t \in TaskSet :
        /\ t.op = "deleteSelectedPhotos" /\ t.pc = "cacheWritten"
        /\ analysisCache' = withoutPhoto(analysisCache, t.uri)
        /\ UNCHANGED <<uiVars, camVars, storeVars, ops>>
        /\ nextUri(t)

\* deleteSelectedPhotos after multiRemove (or with nothing to remove): the
\* loop goes on.
deleteSelectedPhotos_removed ==
    \E t \in TaskSet :
        /\ t.op = "deleteSelectedPhotos" /\ t.pc = "removed"
        /\ UNCHANGED <<uiVars, analysisCache, camVars, storeVars, ops>>
        /\ nextUri(t)

NextDetail ==
    \/ loadSavedPhotos
    \/ loadSavedPhotos_getPhotos
    \/ loadAnalysisCache
    \/ loadLanguagePreference
    \/ openPhoto
    \/ openPhoto_hashed
    \/ openPhoto_loaded
    \/ closePhoto
    \/ analyzeImage
    \/ analyzeImage_hashed
    \/ analyzeImage_cacheHitTimer
    \/ analyzeImage_checked
    \/ analyzeImage_optimized
    \/ analyzeImage_described
    \/ saveAnalysisToStorage_cache
    \/ saveAnalysisToStorage_record
    \/ analyzeImage_saved
    \/ changeLanguage
    \/ changeLanguage_langSaved
    \/ translateAnalysis_translated
    \/ translateAnalysis_hashed
    \/ translateAnalysis_saved
    \/ getAllCachedAnalyses
    \/ translateAllCachedAnalyses
    \/ translateAnalysisInBackground_translated
    \/ translateAnalysisInBackground_saved
    \/ pressItem
    \/ longPressItem
    \/ toggleSelectionMode
    \/ pressDelete
    \/ cancelDelete
    \/ deleteSelectedPhotos
    \/ deleteSelectedPhotos_photosSaved
    \/ deleteSelectedPhotos_keys
    \/ deleteSelectedPhotos_cacheRead
    \/ deleteSelectedPhotos_cacheWritten
    \/ deleteSelectedPhotos_removed

\* The Detail screen of src/app/(tabs)/Detail.tsx.
SpecDetail == Init /\ [][NextDetail]_vars

(***************************************************************************)
(* Properties of src/app/(tabs)/Detail.tsx.                                *)
(***************************************************************************)
\* The item "analysisCache", the items `analysis_*` and the in-memory cache as
\* they were when the reported invocation was called.
PreCache(d) == d.task.pre[3]

PreRecords(d) == d.task.pre[4]

PreMemory(d) == d.task.pre[6]

InCache(item, uri, lang) == item.present /\ Has(item.val, HashOf(uri, lang))

\* Every text kept as the analysis of a photo: in the item "analysisCache", in
\* the items `analysis_*` and in the in-memory cache.
StoredTexts ==
    (IF stCache.present THEN {stCache.val[h] : h \in DOMAIN stCache.val} ELSE {})
        \cup {stRecords[k].text : k \in DOMAIN stRecords}
        \cup {analysisCache[h] : h \in DOMAIN analysisCache}

\* C1: when deleteSelectedPhotos has returned, and no other invocation wrote
\* to the store while it ran, then for every deleted uri and each of en, es, ru
\* there is no item `analysis_<uri>_<language>`, and neither the item
\* "analysisCache" nor the in-memory cache has an entry under the digest of
\* `<uri>_<language>`.
C1_NoAnalysisOfDeletedPhoto ==
    (done.op = "deleteSelectedPhotos" /\ done.clean) =>
        \A uri \in done.task.sel, lang \in languages :
            /\ ~Has(stRecords, RecordKey(uri, lang))
            /\ ~InCache(stCache, uri, lang)
            /\ ~Has(analysisCache, HashOf(uri, lang))

\* C5: no text of a failure path, and no translation of one, is ever kept as
\* the analysis of a photo, in the store or in the in-memory cache.
C5_NoErrorTextStored == \A text \in StoredTexts : text.kind # "error"

\* C6: when analyzeImage or translateAnalysis has returned after its remote
\* request threw, and no other invocation wrote to the store meanwhile, the
\* item "analysisCache", every item `analysis_*` and the in-memory cache are
\* as they were before the call.
C6_NoWriteWhenRequestThrows ==
    (/\ done.op \in {"analyzeImage", "translateAnalysis"}
     /\ done.task.outcome = "throw"
     /\ done.clean)
    => /\ stCache = PreCache(done)
       /\ stRecords = PreRecords(done)
       /\ analysisCache = PreMemory(done)

\* C6 happens: a describe or translate request threw while analyses of earlier
\* calls were stored.
C6_Witness ==
    /\ done.op \in {"analyzeImage", "translateAnalysis"}
    /\ done.task.outcome = "throw"
    /\ done.clean
    /\ PreCache(done).present
    /\ PreRecords(done) # EmptyMap

\* C7: when analyzeImage or translateAnalysis has returned after its remote
\* request answered with empty content, and no other invocation wrote to the
\* store meanwhile, nothing was written: the item "analysisCache", every item
\* `analysis_*` and the in-memory cache are as they were before the call.
C7_EmptyResponseNotStored ==
    (/\ done.op \in {"analyzeImage", "translateAnalysis"}
     /\ done.task.outcome = "empty"
     /\ done.clean)
    => /\ stCache = PreCache(done)
       /\ stRecords = PreRecords(done)
       /\ analysisCache = PreMemory(done)

\* C8 (Detail.tsx): an analyzeImage(uri) called with no analysis of uri cached in
\* any language, if it returns a text, has issued exactly one describe request
\* and has stored the text under the digest of `<uri>_<language>`; an
\* analyzeImage(uri) called with that digest cached issues no request and
\* returns the cached text.
C8_AnalyzeTwice_detail ==
    (done.op = "analyzeImage" /\ done.clean) =>
        /\ (/\ \A lang \in languages :
                  /\ ~InCache(PreCache(done), done.task.uri, lang)
                  /\ ~Has(PreMemory(done), HashOf(done.task.uri, lang))
            /\ done.result \notin {Null, Rejected})
           => /\ done.task.reqs = <<"describe">>
              /\ InCache(stCache, done.task.uri, done.task.lang)
              /\ stCache.val[HashOf(done.task.uri, done.task.lang)] = done.result
              /\ analysisCache[HashOf(done.task.uri, done.task.lang)] = done.result
        /\ Has(PreMemory(done), HashOf(done.task.uri, done.task.lang))
           => /\ done.task.reqs = <<>>
              /\ done.result = PreMemory(done)[HashOf(done.task.uri, done.task.lang)]

(***************************************************************************)
(* src/app/(tabs)/index.tsx: the camera tab, which shares the AsyncStorage *)
(* item "capturedPhotos" with the Detail screen.                           *)
(***************************************************************************)

\* useEffect(() => { loadSavedPhotos() }, []): the load the camera tab starts
\* when it mounts, up to its getItem.
cam_mount ==
    [op |-> "cam_loadSavedPhotos", pc |-> "getPhotos", lang |-> en, uri |-> <<>>,
     got |-> stPhotos, text |-> Null, result |-> Null, target |-> en, photo |-> Null,
     outcome |-> "none",
     pre |-> StoreView, seen |-> StoreView, clean |-> TRUE, reqs |-> <<>>]

\* loadSavedPhotos of the camera tab after its getItem.
cam_loadSavedPhotos ==
    \E t \in TaskSet :
        /\ t.op = "cam_loadSavedPhotos" /\ t.pc = "getPhotos"
        /\ camPhotos' = IF t.got.present THEN t.got.val ELSE camPhotos
        /\ UNCHANGED <<uiVars, analysisCache, created, storeVars, ops>>
        /\ Finish(t, Report(t, Null))

\* The shutter button: takePicture up to `await takePictureAsync(...)`.  Its
\* savePhoto is the one of the current render, with that render's list.
cam_takePicture ==
    /\ CanInvoke
    /\ created < Len(UriPool)
    /\ UNCHANGED <<uiVars, analysisCache, camVars, storeVars>>
    /\ Begin(NewTask("takePicture", "taking", selectedLanguage, <<>>, Absent)
             @@ [photos |-> camPhotos])

\* savePhoto: `[newPhoto, ...capturedPhotos]`
cam_updatedPhotos(newPhoto, photos) == <<newPhoto>> \o photos

\* takePicture after takePictureAsync: with a photo, savePhoto(newPhoto) runs
\* up to its setItem; the camera writes every photo to a file of its own.
cam_takePicture_taken ==
    \E t \in TaskSet, how \in {"taken", "failed"} :
        /\ t.op = "takePicture" /\ t.pc = "taking"
        /\ UNCHANGED <<uiVars, analysisCache, camPhotos, stAnalyses, stCache, stRecords,
                       stLanguage, ops>>
        /\ IF how = "taken"
           THEN /\ created' = created + 1
                /\ stPhotos' = Item(cam_updatedPhotos(UriPool[created + 1], t.photos))
                /\ Continue(t, [t EXCEPT !.op = "savePhoto", !.pc = "saving",
                                         !.uri = UriPool[created + 1],
                                         !.pre = StoreView, !.seen = StoreView',
                                         !.clean = TRUE])
           ELSE /\ UNCHANGED <<created, stPhotos>>
                /\ Finish(t, Report(t, Null))

\* savePhoto after its setItem: setCapturedPhotos(updatedPhotos).
cam_savePhoto_saved ==
    \E t \in TaskSet :
        /\ t.op = "savePhoto" /\ t.pc = "saving"
        /\ camPhotos' = cam_updatedPhotos(t.uri, t.photos)
        /\ UNCHANGED <<uiVars, analysisCache, created, storeVars, ops>>
        /\ Finish(t, Report(t, Null))

\* What an earlier session can have left for the first photo: nothing, or its
\* analysis in English.
InitStoreAnalyzed ==
    /\ stPhotos \in {Item(l) : l \in InitPhotoLists \ {<<>>}}
    /\ stAnalyses = Absent
    /\ stCache = Item(Put(EmptyMap, HashOf(UriPool[1], en), DescribeResult(UriPool[1], en)))
    /\ stRecords = analysisData(EmptyMap, UriPool[1], en, DescribeResult(UriPool[1], en))
    /\ stLanguage = Absent
    /\ created = Len(stPhotos.val)

\* Both tabs: the camera tab has just mounted.
InitPhotos ==
    /\ InitUI
    /\ InitStore \/ InitStoreAnalyzed
    /\ tasks = SetToBag({cam_mount})

NextPhotos ==
    \/ cam_loadSavedPhotos
    \/ cam_takePicture
    \/ cam_takePicture_taken
    \/ cam_savePhoto_saved
    \/ loadSavedPhotos
    \/ loadSavedPhotos_getPhotos
    \/ loadAnalysisCache
    \/ loadLanguagePreference
    \/ pressItem
    \/ longPressItem
    \/ toggleSelectionMode
    \/ pressDelete
    \/ cancelDelete
    \/ deleteSelectedPhotos
    \/ deleteSelectedPhotos_photosSaved
    \/ deleteSelectedPhotos_keys
    \/ deleteSelectedPhotos_cacheRead
    \/ deleteSelectedPhotos_cacheWritten
    \/ deleteSelectedPhotos_removed

\* The photo collection as the camera tab (src/app/(tabs)/index.tsx) and the
\* Detail screen (src/app/(tabs)/Detail.tsx) share it.
SpecPhotos == InitPhotos /\ [][NextPhotos]_vars

\* The persisted photo list as it was when the reported invocation was called.
PrePhotos(d) == IF d.task.pre[1].present THEN SeqToSet(d.task.pre[1].val) ELSE {}

\* C9: savePhoto(p) prepends p to the persisted collection as it is at the
\* call: a photo that the camera tab has in its list and that the Detail
\* screen has since removed from the persisted collection is not in the
\* collection savePhoto persists.
C9_SavePhotoKeepsRemovedPhotoOut ==
    (done.op = "savePhoto" /\ done.clean) =>
        \A uri \in SeqToSet(done.task.photos) :
            uri \notin PrePhotos(done) => uri \notin SeqToSet(stPhotos.val)

(***************************************************************************)
(* Further properties of the `analyses`-map revision (src/unnamed/part_001).*)
(***************************************************************************)
\* The persisted photo list, an absent item counting as the empty list.
PersistedPhotos == IF stPhotos.present THEN stPhotos.val ELSE <<>>

\* No loadSavedPhotos and no deleteSelectedPhotos is in flight.
PhotosQuiet == \A t \in TaskSet : t.op \notin {"loadSavedPhotos", "deleteSelectedPhotos"}

\* C11: when a loadSavedPhotos or a deleteSelectedPhotos has returned and none
\* of either is in flight, the in-memory capturedPhotos list has the uris of
\* the persisted list, in the same order, whatever the interleaving was.
C11_ListsConverge ==
    (done.op \in {"loadSavedPhotos", "deleteSelectedPhotos"} /\ PhotosQuiet) =>
        UrisOf(capturedPhotos) = PersistedPhotos

(***************************************************************************)
(* Further properties of src/app/(tabs)/Detail.tsx.                        *)
(***************************************************************************)
\* C12: when the translateAnalysis that changeLanguage called for the displayed
\* analysis of the open photo has returned after its translate request threw,
\* and the photo is still open, aiAnalysis holds an error text: the failure is
\* shown instead of the analysis that was displayed before.
C12_TranslateFailureSurfaced ==
    (/\ done.op = "translateAnalysis" /\ done.task.outcome = "throw"
     /\ done.task.text.kind = "analysis"
     /\ selectedPhoto = done.task.photo)
    => aiAnalysis.kind = "error"

\* C13: an analyzeImage that has returned issued at most one describe request;
\* if that request threw, aiAnalysis holds the error text, isAnalyzing is false
\* and the promise analyzeImage returned is rejected.
C13_DescribeFailureSurfaced ==
    (done.op = "analyzeImage") =>
        /\ Cardinality({i \in DOMAIN done.task.reqs : done.task.reqs[i] = "describe"}) <= 1
        /\ done.task.outcome = "throw" =>
              /\ aiAnalysis = ErrorText(done.task.uri)
              /\ ~isAnalyzing
              /\ done.result = Rejected

\* C13 happens: an analyzeImage returned after its describe request threw.
C13_Witness ==
    /\ done.op = "analyzeImage"
    /\ done.task.outcome = "throw"
    /\ done.task.reqs = <<"describe">>

(***************************************************************************)
(* The language change of src/unnamed/part_001 on a store that earlier     *)
(* sessions have filled: every persisted photo has its English analysis.   *)
(***************************************************************************)
\* The "analyses" map saveAnalysisForPhoto builds when each of the photos is
\* analyzed under the language en.
RECURSIVE p1_analysesOf(_)
p1_analysesOf(uris) ==
    IF uris = <<>> THEN EmptyMap
    ELSE Put(p1_analysesOf(Tail(uris)), KeyOf(Head(uris), en),
             DescribeResult(Head(uris), en))

p1_InitStoreAnalyzed ==
    /\ stPhotos \in {Item(l) : l \in InitPhotoLists \ {<<>>}}
    /\ stAnalyses = Item(p1_analysesOf(stPhotos.val))
    /\ stCache = Absent
    /\ stRecords = EmptyMap
    /\ stLanguage = Absent
    /\ created = Len(stPhotos.val)

\* The screen after construction on that store; each stored analysis has cost
\* one analyzeImage of the budget.
p1_InitAnalyzed ==
    /\ p1_InitStoreAnalyzed
    /\ capturedPhotos = <<>>
    /\ selectedPhoto = Null
    /\ aiAnalysis = Null
    /\ isAnalyzing = FALSE
    /\ selectedLanguage = en
    /\ isSelectionMode = FALSE
    /\ selectedPhotos = {}
    /\ showDeleteConfirmation = FALSE
    /\ analysisCache = EmptyMap
    /\ camPhotos = <<>>
    /\ tasks = EmptyBag
    /\ ops = Len(stPhotos.val)
    /\ done = NoOp

p1_NextLanguage ==
    \/ p1_loadSavedPhotos
    \/ p1_loadSavedPhotos_getPhotos
    \/ p1_loadLanguagePreference
    \/ p1_openPhoto
    \/ p1_openPhoto_loaded
    \/ p1_closePhoto
    \/ p1_handleLanguageChange
    \/ p1_handleLanguageChange_langSaved
    \/ p1_translateAnalysis_translated
    \/ p1_translateAnalysis_saving
    \/ p1_translateAnalysis_saved
    \/ p1_translateAllCachedAnalyses
    \/ p1_translateAnalysisInBackground_translated
    \/ p1_translateAnalysisInBackground_saving

SpecP1Language == p1_InitAnalyzed /\ [][p1_NextLanguage]_vars

\* The map a getItem of "analyses" yielded, an absent item counting as empty.
MapOf(item) == IF item.present THEN item.val ELSE EmptyMap

\* C14: the background translations of one translateAllCachedAnalyses are all
\* in flight when it returns (none is awaited), and the write of each replaces
\* the persisted map by the map it read plus its own entry, whatever was
\* written in between (last write wins).
C14_LastWriteWins ==
    /\ (done.op = "handleLanguageChange") =>
          \A uri \in done.result :
              \E t \in TaskSet : /\ t.op = "translateAnalysisInBackground"
                                 /\ t.pc = "translating"
                                 /\ t.uri = uri
    /\ (done.op = "translateAnalysisInBackground" /\ done.task.outcome # "throw") =>
          stAnalyses = Item(Put(MapOf(done.task.got),
                                KeyOf(done.task.uri, done.task.lang), done.result))

\* C14 happens: two background translations for different keys interleaved
\* their read-modify-write cycles, and when the second returned the map held
\* its result while the entry the other one had written in between was lost.
C14_Witness ==
    /\ done.op = "translateAnalysisInBackground"
    /\ done.task.outcome = "content"
    /\ ~done.clean
    /\ \E uri \in Uris :
          /\ KeyOf(uri, done.task.lang) # KeyOf(done.task.uri, done.task.lang)
          /\ HasAnalysis(stAnalyses, uri, done.task.lang)
          /\ stAnalyses.val[KeyOf(uri, done.task.lang)] = DescribeResult(uri, en)
          /\ ~\E t \in TaskSet : t.op = "translateAnalysisInBackground" /\ t.uri = uri

(***************************************************************************)
(* The cache key input, `${uri}_${selectedLanguage}`, as a function of the *)
(* uri and the language: the photo modal is open on a photo with any uri   *)
(* over the characters the separator and the language codes are made of,   *)
(* and the key of the photo is derived.                                    *)
(***************************************************************************)
KeyChars == {"_", "e", "n", "s"}

KeyUris == UNION {[1..k -> KeyChars] : k \in 0..MaxUriLen}

InitKey ==
    /\ \E uri \in KeyUris :
          /\ capturedPhotos = <<Photo(uri, 0)>>
          /\ selectedPhoto = Photo(uri, 0)
          /\ stPhotos = Item(<<uri>>)
    /\ selectedLanguage \in languages
    /\ stLanguage = Item(selectedLanguage)
    /\ aiAnalysis = Null
    /\ isAnalyzing = FALSE
    /\ isSelectionMode = FALSE
    /\ selectedPhotos = {}
    /\ showDeleteConfirmation = FALSE
    /\ analysisCache = EmptyMap
    /\ camPhotos = <<>>
    /\ created = 1
    /\ stAnalyses = Absent
    /\ stCache = Absent
    /\ stRecords = EmptyMap
    /\ tasks = EmptyBag
    /\ ops = 0
    /\ done = NoOp

\* The key input of the open photo under the selected language is built.
deriveKey ==
    /\ ops = 0
    /\ ops' = 1
    /\ done' = [op |-> "KeyOf",
                task |-> [uri |-> selectedPhoto.uri, lang |-> selectedLanguage],
                result |-> KeyOf(selectedPhoto.uri, selectedLanguage),
                clean |-> TRUE]
    /\ UNCHANGED <<uiVars, analysisCache, camVars, storeVars, tasks>>

SpecKey == InitKey /\ [][deriveKey]_vars

\* C18: the key built from a uri and a language is a function of the two, and
\* any uri and language that give the same key are that uri and that language.
C18_KeyInjective ==
    (done.op = "KeyOf") =>
        /\ done.result = done.task.uri \o <<"_">> \o done.task.lang
        /\ \A uri \in KeyUris, lang \in languages :
              KeyOf(uri, lang) = done.result =>
                  uri = done.task.uri /\ lang = done.task.lang

\* A key was derived for a uri that holds the separator and ends like a key.
C18_Witness ==
    /\ done.op = "KeyOf"
    /\ Includes(done.task.uri, <<"_">>)
    /\ \E lang \in languages : EndsWith(done.task.uri, <<"_">> \o lang)

(***************************************************************************)
(* The functions that keep analyses in AsyncStorage, called on their own:  *)
(* saveAnalysisForPhoto and loadAnalysisForPhoto of src/unnamed/part_001,  *)
(* saveAnalysisToStorage of src/app/(tabs)/Detail.tsx.  Their callers pass *)
(* any photo uri and any analysis text, under any selected language; a     *)
(* call may start while another one is waiting for the store.              *)
(***************************************************************************)
CanCall == ops < MaxCalls /\ InFlight <= MaxInFlight

\* The texts a caller saves for a photo: what analyzeImage got for it.
AnalysesOf(uri, lang) == {DescribeResult(uri, lang), Placeholder(uri, lang)}

\* saveAnalysisForPhoto(photoUri, analysis) up to its getItem("analyses").
saveAnalysisForPhoto_call ==
    \E photoUri \in Uris, lang \in languages :
        \E analysis \in AnalysesOf(photoUri, lang) :
            /\ CanCall
            /\ UNCHANGED <<uiVars, analysisCache, camVars, storeVars>>
            /\ Begin([NewTask("saveAnalysisForPhoto", "getAnalyses", lang, photoUri,
                              stAnalyses) EXCEPT !.text = analysis])

\* saveAnalysisForPhoto after the getItem: setItem("analyses") with the entry set.
saveAnalysisForPhoto_got ==
    \E t \in TaskSet :
        /\ t.op = "saveAnalysisForPhoto" /\ t.pc = "getAnalyses"
        /\ stAnalyses' = p1_saveAnalysisForPhoto(t.got, t.uri, t.lang, t.text)
        /\ UNCHANGED <<uiVars, analysisCache, camVars, stPhotos, stCache, stRecords,
                       stLanguage, ops>>
        /\ Finish(t, Report(t, Null))

\* loadAnalysisForPhoto(photoUri): getItem("analyses") and the lookup.
loadAnalysisForPhoto_call ==
    \E photoUri \in Uris, lang \in languages :
        \E analysis \in p1_loadAnalysisForPhoto(stAnalyses, photoUri, lang) :
            /\ CanCall
            /\ UNCHANGED <<uiVars, analysisCache, camVars, storeVars, tasks>>
            /\ ops' = ops + 1
            /\ done' = Report(NewTask("loadAnalysisForPhoto", "returned", lang, photoUri,
                                      stAnalyses), analysis)

\* saveAnalysisToStorage(imageUri, analysis, imageHash) up to its
\* getItem("analysisCache"): the in-memory cache is updated first.
saveAnalysisToStorage_call ==
    \E imageUri \in Uris, lang \in languages :
        \E analysis \in AnalysesOf(imageUri, lang) :
            /\ CanCall
            /\ analysisCache' = Put(analysisCache, HashOf(imageUri, lang), analysis)
            /\ UNCHANGED <<uiVars, camVars, storeVars>>
            /\ Begin([NewTask("saveAnalysisToStorage", "getCache", lang, imageUri,
                              stCache) EXCEPT !.text = analysis])

\* saveAnalysisToStorage after the getItem: setItem("analysisCache").
saveAnalysisToStorage_got ==
    \E t \in TaskSet :
        /\ t.op = "saveAnalysisToStorage" /\ t.pc = "getCache"
        /\ stCache' = cacheToSave(t.got, HashOf(t.uri, t.lang), t.text)
        /\ UNCHANGED <<uiVars, analysisCache, camVars, stPhotos, stAnalyses, stRecords,
                       stLanguage, ops>>
        /\ Continue(t, [Touch(t) EXCEPT !.pc = "cacheSaved"])

\* saveAnalysisToStorage after the first setItem: setItem(`analysis_<uri>_<language>`).
saveAnalysisToStorage_cacheSaved ==
    \E t \in TaskSet :
        /\ t.op = "saveAnalysisToStorage" /\ t.pc = "cacheSaved"
        /\ stRecords' = analysisData(stRecords, t.uri, t.lang, t.text)
        /\ UNCHANGED <<uiVars, analysisCache, camVars, stPhotos, stAnalyses, stCache,
                       stLanguage, ops>>
        /\ Finish(t, Report(t, Null))

NextStore ==
    \/ saveAnalysisForPhoto_call
    \/ saveAnalysisForPhoto_got
    \/ loadAnalysisForPhoto_call
    \/ saveAnalysisToStorage_call
    \/ saveAnalysisToStorage_got
    \/ saveAnalysisToStorage_cacheSaved

\* No analysis has been saved yet; the photos are the ones callers pass.
InitCalls ==
    /\ InitUI
    /\ stPhotos = Item(SubSeq(UriPool, 1, Min(MaxPhotos, Len(UriPool))))
    /\ stAnalyses = Absent
    /\ stCache = Absent
    /\ stRecords = EmptyMap
    /\ stLanguage = Absent
    /\ created = Len(stPhotos.val)
    /\ tasks = EmptyBag

SpecStore == InitCalls /\ [][NextStore]_vars

\* C15: a save that no other write interleaved with leaves every entry the
\* persisted map held under another key in the map, with the value it had,
\* whether saveAnalysisForPhoto wrote "analyses" or saveAnalysisToStorage
\* wrote "analysisCache".
C15_SaveMerges ==
    /\ (done.op = "saveAnalysisForPhoto" /\ done.clean) =>
          \A k \in DOMAIN MapOf(PreAnalyses(done)) \ {KeyOf(done.task.uri, done.task.lang)} :
              /\ stAnalyses.present
              /\ Has(stAnalyses.val, k)
              /\ stAnalyses.val[k] = PreAnalyses(done).val[k]
    /\ (done.op = "saveAnalysisToStorage" /\ done.clean) =>
          \A k \in DOMAIN MapOf(PreCache(done)) \ {HashOf(done.task.uri, done.task.lang)} :
              /\ stCache.present
              /\ Has(stCache.val, k)
              /\ stCache.val[k] = PreCache(done).val[k]

\* A save returned from a call made when the map held an entry under another
\* key.
C15_Witness ==
    \/ /\ done.op = "saveAnalysisForPhoto" /\ done.clean
       /\ DOMAIN MapOf(PreAnalyses(done)) \ {KeyOf(done.task.uri, done.task.lang)} # {}
    \/ /\ done.op = "saveAnalysisToStorage" /\ done.clean
       /\ DOMAIN MapOf(PreCache(done)) \ {HashOf(done.task.uri, done.task.lang)} # {}

\* C19: after saveAnalysisForPhoto(uri, a) returned with no other write in
\* between, loadAnalysisForPhoto(uri) under the same language returns a.
C19_SaveLoadRoundTrip ==
    (done.op = "saveAnalysisForPhoto" /\ done.clean) =>
        p1_loadAnalysisForPhoto(stAnalyses, done.task.uri, done.task.lang)
            = {done.task.text}

\* The save returned into a map that holds another entry whose key starts
\* with the same uri.
C19_Witness ==
    /\ done.op = "saveAnalysisForPhoto" /\ done.clean
    /\ \E k \in DOMAIN MapOf(stAnalyses) :
          /\ k # KeyOf(done.task.uri, done.task.lang)
          /\ StartsWith(k, done.task.uri)
          /\ stAnalyses.val[k] # done.task.text

(***************************************************************************)
(* src/unnamed/part_003: the camera tab whose savePhoto reads the persisted *)
(* collection before it writes.  Its mount effect and loadSavedPhotos are  *)
(* those of src/app/(tabs)/index.tsx (cam_mount, cam_loadSavedPhotos).  It *)
(* shares "capturedPhotos" with the Detail screen of src/unnamed/part_001. *)
(***************************************************************************)

\* The shutter button: takePicture up to `await takePictureAsync(...)`.
p3_takePicture ==
    /\ CanInvoke
    /\ created < Len(UriPool)
    /\ UNCHANGED <<uiVars, analysisCache, camVars, storeVars>>
    /\ Begin(NewTask("takePicture", "taking", selectedLanguage, <<>>, Absent)
             @@ [photos |-> <<>>])

\* A savePhoto that prepends the photo to an empty collection.
p3_updatedPhotos_fromEmpty(newPhoto, savedPhotos) == <<newPhoto>>

\* savePhoto: currentPhotos is the parsed item, or [] when the item is absent;
\* `[newPhoto, ...currentPhotos]`.
p3_updatedPhotos(newPhoto, savedPhotos) ==
    <<newPhoto>> \o (IF savedPhotos.present THEN savedPhotos.val ELSE <<>>)

\* takePicture after takePictureAsync: with a photo, savePhoto(newPhoto) is
\* called and runs up to its getItem("capturedPhotos").
p3_takePicture_taken ==
    \E t \in TaskSet, how \in {"taken", "failed"} :
        /\ t.op = "takePicture" /\ t.pc = "taking"
        /\ UNCHANGED <<uiVars, analysisCache, camPhotos, storeVars, ops>>
        /\ IF how = "taken"
           THEN /\ created' = created + 1
                /\ Continue(t, [t EXCEPT !.op = "savePhoto", !.pc = "getPhotos",
                                         !.uri = UriPool[created + 1],
                                         !.got = stPhotos,
                                         !.pre = StoreView, !.seen = StoreView',
                                         !.clean = TRUE])
           ELSE /\ UNCHANGED created
                /\ Finish(t, Report(t, Null))

\* savePhoto after its getItem: setItem("capturedPhotos", updatedPhotos).
p3_savePhoto_got ==
    \E t \in TaskSet :
        /\ t.op = "savePhoto" /\ t.pc = "getPhotos"
        /\ stPhotos' = Item(p3_updatedPhotos(t.uri, t.got))
        /\ UNCHANGED <<uiVars, analysisCache, camVars, stAnalyses, stCache, stRecords,
                       stLanguage, ops>>
        /\ Continue(t, [Touch(t) EXCEPT !.pc = "saving",
                                        !.photos = p3_updatedPhotos(t.uri, t.got)])

\* savePhoto after its setItem: setCapturedPhotos(updatedPhotos); takePicture
\* then sets lastCapturedPhoto.
p3_savePhoto_saved ==
    \E t \in TaskSet :
        /\ t.op = "savePhoto" /\ t.pc = "saving"
        /\ camPhotos' = t.photos
        /\ UNCHANGED <<uiVars, analysisCache, created, storeVars, ops>>
        /\ Finish(t, Report(t, Null))

\* Both tabs: the camera tab has just mounted; each persisted photo has cost
\* one takePicture of the budget.
p3_Init ==
    /\ capturedPhotos = <<>>
    /\ selectedPhoto = Null
    /\ aiAnalysis = Null
    /\ isAnalyzing = FALSE
    /\ selectedLanguage = en
    /\ isSelectionMode = FALSE
    /\ selectedPhotos = {}
    /\ showDeleteConfirmation = FALSE
    /\ analysisCache = EmptyMap
    /\ camPhotos = <<>>
    /\ InitStore
    /\ tasks = SetToBag({cam_mount})
    /\ ops = created
    /\ done = NoOp

p3_Next ==
    \/ cam_loadSavedPhotos
    \/ p3_takePicture
    \/ p3_takePicture_taken
    \/ p3_savePhoto_got
    \/ p3_savePhoto_saved
    \/ p1_loadSavedPhotos
    \/ p1_loadSavedPhotos_getPhotos
    \/ p1_loadLanguagePreference
    \/ p1_pressItem
    \/ p1_longPressItem
    \/ p1_toggleSelectionMode
    \/ p1_pressDelete
    \/ p1_cancelDelete
    \/ p1_deleteSelectedPhotos
    \/ p1_deleteSelectedPhotos_deleting
    \/ p1_deleteSelectedPhotos_deleted
    \/ p1_deleteSelectedPhotos_photosSaved

\* The photo collection as the camera tab of src/unnamed/part_003 and the
\* Detail screen of src/unnamed/part_001 share it.
SpecPhotos3 == p3_Init /\ [][p3_Next]_vars

\* C16: when savePhoto(p) has returned and no other write came between its
\* call and its return, the persisted list is p followed by the list that was
\* persisted at the call, and the camera tab's list is the persisted list.
C16_SavePhotoPrepends ==
    (done.op = "savePhoto" /\ done.clean) =>
        /\ stPhotos = Item(<<done.task.uri>> \o MapOf(done.task.pre[1]))
        /\ camPhotos = stPhotos.val

\* savePhoto returned after the Detail screen had removed a photo from a
\* collection that still holds one.
C16_Witness ==
    /\ done.op = "savePhoto" /\ done.clean
    /\ done.task.pre[1].present
    /\ Len(done.task.pre[1].val) > 0
    /\ created > Len(stPhotos.val)

(***************************************************************************)
(* Further properties of src/app/(tabs)/Detail.tsx: no cancellation.       *)
(***************************************************************************)
\* C17: closePhoto leaves the invocations in flight alone, and every
\* analyzeImage whose describe request is in flight goes on, whether the photo
\* modal is open or closed: when the request answers, the text goes to the
\* in-memory cache and saveAnalysisToStorage is called with it; its first
\* setItem writes "analysisCache" with the text under the hash of
\* `<uri>_<language>`, its second writes the item `analysis_<uri>_<language>`
\* with the text, and analyzeImage returns the text.
C17_NoCancellation ==
    [][/\ (selectedPhoto # Null /\ selectedPhoto' = Null /\ ops' = ops) => tasks' = tasks
       /\ \A t \in TaskSet :
            (t.op = "analyzeImage" /\ t \notin BagToSet(tasks')) =>
                CASE t.pc = "describing" ->
                        \/ done'.op = "analyzeImage" /\ done'.task.outcome = "throw"
                        \/ \E t2 \in BagToSet(tasks') :
                              /\ t2.op = "analyzeImage" /\ t2.pc = "saving"
                              /\ t2.uri = t.uri /\ t2.lang = t.lang
                              /\ t2.result.kind \in {"analysis", "placeholder"}
                              /\ t2.result.uri = t.uri
                              /\ Has(analysisCache', HashOf(t.uri, t.lang))
                              /\ analysisCache'[HashOf(t.uri, t.lang)] = t2.result
                  [] t.pc = "saving" ->
                        /\ InCache(stCache', t.uri, t.lang)
                        /\ stCache'.val[HashOf(t.uri, t.lang)] = t.result
                  [] t.pc = "cacheSaved" ->
                        /\ Has(stRecords', RecordKey(t.uri, t.lang))
                        /\ stRecords'[RecordKey(t.uri, t.lang)].text = t.result
                  [] t.pc = "saved" ->
                        /\ done'.op = "analyzeImage"
                        /\ done'.result = t.result
                  [] OTHER -> TRUE
      ]_vars

\* An analyzeImage returned whose describe request was sent while the photo
\* modal showed the photo and succeeded after the modal had been closed.
C17_Witness ==
    /\ done.op = "analyzeImage"
    /\ done.task.outcome = "content"
    /\ done.task.reqs = <<"describe">>
    /\ done.task.photo # Null
    /\ done.task.photo.uri = done.task.uri
    /\ selectedPhoto = Null

(***************************************************************************)
(* The reads of the stored analyses on a store that an earlier session     *)
(* left empty, filled, or with an item that is not JSON:                   *)
(* loadAnalysisForPhoto of src/unnamed/part_001 on "analyses", openPhoto   *)
(* and analyzeImage of src/app/(tabs)/Detail.tsx on "analysisCache".       *)
(***************************************************************************)
InitReads ==
    /\ InitUI
    /\ stPhotos = Item(SubSeq(UriPool, 1, Min(MaxPhotos, Len(UriPool))))
    /\ stAnalyses \in {Absent, Malformed, Item(p1_analysesOf(<<UriPool[1]>>))}
    /\ \/ stCache \in {Absent, Malformed} /\ stRecords = EmptyMap
       \/ /\ stCache = Item(Put(EmptyMap, HashOf(UriPool[1], en),
                                DescribeResult(UriPool[1], en)))
          /\ stRecords = analysisData(EmptyMap, UriPool[1], en,
                                      DescribeResult(UriPool[1], en))
    /\ stLanguage = Absent
    /\ created = Len(stPhotos.val)
    /\ tasks = EmptyBag

NextReads ==
    \/ loadAnalysisForPhoto_call
    \/ loadSavedPhotos
    \/ loadSavedPhotos_getPhotos
    \/ loadAnalysisCache
    \/ loadLanguagePreference
    \/ openPhoto
    \/ openPhoto_hashed
    \/ openPhoto_loaded
    \/ closePhoto
    \/ analyzeImage
    \/ analyzeImage_hashed
    \/ analyzeImage_cacheHitTimer
    \/ analyzeImage_checked
    \/ analyzeImage_optimized
    \/ analyzeImage_described
    \/ saveAnalysisToStorage_cache
    \/ saveAnalysisToStorage_record
    \/ analyzeImage_saved

SpecReads == InitReads /\ [][NextReads]_vars

\* The item is absent or is not JSON.
Unreadable(item) == ~item.present \/ ~Parses(item)

\* The AsyncStorage items are as they were when the invocation was called.
StoreAsAt(t) == \A i \in 1..5 : StoreView[i] = t.pre[i]

\* C20 as stated: whenever the persisted record is absent or not valid JSON
\* at the call, loadAnalysisForPhoto returns null, openPhoto returns without
\* an analysis and analyzeImage does not return a cached text, and the store
\* is as it was at the call.
C20_ReadsTolerate_asStated ==
    /\ (done.op = "loadAnalysisForPhoto" /\ Unreadable(PreAnalyses(done))) =>
          done.result = Null /\ StoreAsAt(done.task)
    /\ (done.op = "openPhoto" /\ Unreadable(PreCache(done))) =>
          done.result = Null /\ StoreAsAt(done.task)
    /\ (done.op = "analyzeImage" /\ Unreadable(PreCache(done))) =>
          done.task.pc \notin {"hashed", "checking"}

\* C20, amended: loadAnalysisForPhoto that read an unreadable "analyses" item
\* returns null; openPhoto that found no entry in the in-memory cache and read
\* an unreadable "analysisCache" item returns without an analysis; analyzeImage
\* returns a text from its check of "analysisCache" only when the item it read
\* is readable, and otherwise goes on to the API call; no error reaches the
\* caller, and when no other invocation wrote in between the store and the
\* in-memory cache are as they were at the call.
C20_ReadsTolerate ==
    /\ (done.op = "loadAnalysisForPhoto" /\ Unreadable(done.task.got)) =>
          /\ done.result = Null
          /\ done.clean => StoreAsAt(done.task)
    /\ (done.op = "openPhoto" /\ done.task.pc = "loaded" /\ Unreadable(done.task.got)) =>
          /\ done.result = Null
          /\ done.clean => StoreAsAt(done.task) /\ analysisCache = PreMemory(done)
    /\ (done.op = "analyzeImage" /\ done.task.pc = "checking") =>
          ~Unreadable(done.task.got)
    /\ \A t \in TaskSet :
          (/\ t.op = "analyzeImage" /\ t.pc = "optimizing"
           /\ t.clean /\ StoreView = t.seen) =>
              StoreAsAt(t) /\ analysisCache = t.pre[6]

\* openPhoto read an "analysisCache" item that is not JSON and returned.
C20_Witness ==
    /\ done.op = "openPhoto"
    /\ done.task.pc = "loaded"
    /\ done.task.got = Malformed
    /\ stCache = Malformed

(***************************************************************************)
(* Further properties of the language menu of src/unnamed/part_001.        *)
(***************************************************************************)
\* C21: when the handler of the language menu returns from a call that chose
\* the language already selected, it has issued no remote request, the
\* AsyncStorage items are as they were at the call, and selectedLanguage is
\* the language that was selected.
C21_SameLanguageOnlyClosesMenu ==
    (done.op = "handleLanguageChange" /\ done.task.target = done.task.lang) =>
        /\ done.task.reqs = <<>>
        /\ done.clean => StoreAsAt(done.task)
        /\ selectedLanguage = done.task.lang

(***************************************************************************)
(* The language change of src/unnamed/part_001 on a store whose photos     *)
(* have any of the uris, the one that holds the separator among them.      *)
(***************************************************************************)
\* The lists of distinct uris the camera tab can have persisted.
PhotoLists ==
    {l \in UNION {[1..n -> SeqToSet(UriPool)] : n \in 1..MaxPhotos} :
        \A i, j \in DOMAIN l : l[i] = l[j] => i = j}

p1_InitAnyAnalyzed ==
    /\ stPhotos \in {Item(l) : l \in PhotoLists}
    /\ stAnalyses = Item(p1_analysesOf(stPhotos.val))
    /\ stCache = Absent
    /\ stRecords = EmptyMap
    /\ stLanguage = Absent
    /\ created = Len(stPhotos.val)
    /\ capturedPhotos = <<>>
    /\ selectedPhoto = Null
    /\ aiAnalysis = Null
    /\ isAnalyzing = FALSE
    /\ selectedLanguage = en
    /\ isSelectionMode = FALSE
    /\ selectedPhotos = {}
    /\ showDeleteConfirmation = FALSE
    /\ analysisCache = EmptyMap
    /\ camPhotos = <<>>
    /\ tasks = EmptyBag
    /\ ops = Len(stPhotos.val)
    /\ done = NoOp

SpecP1Translate == p1_InitAnyAnalyzed /\ [][p1_NextLanguage]_vars

\* The uris that have an analysis in some language in the map and none in the
\* target language.
LackTarget(item, targetLanguage) ==
    {uri \in SeqToSet(UriPool) :
        /\ \E lang \in languages : HasAnalysis(item, uri, lang)
        /\ ~HasAnalysis(item, uri, targetLanguage)}

\* C22: when handleLanguageChange returns from translateAllCachedAnalyses, the
\* background translations it started are one for each uri that has a stored
\* analysis and none in the target language, with that uri as imageUri, and
\* no other.
C22_BackgroundPerUri ==
    (done.op = "handleLanguageChange") =>
        /\ done.result = LackTarget(done.task.got, done.task.target)
        /\ \A uri \in LackTarget(done.task.got, done.task.target) :
              Cardinality({t \in TaskSet : /\ t.op = "translateAnalysisInBackground"
                                           /\ t.uri = uri}) = 1
        /\ \A t \in TaskSet :
              t.op = "translateAnalysisInBackground" =>
                  /\ t.uri \in LackTarget(done.task.got, done.task.target)
                  /\ CopiesIn(t, tasks) = 1

(***************************************************************************)
(* The progress timer of analyzeImage (src/unnamed/part_001).  The timer   *)
(* that setInterval arms is an element of `tasks` of its own: it outlives  *)
(* the turn that armed it until clearInterval removes it.                  *)
(***************************************************************************)
\* setInterval(() => { dots = (dots + 1) % 4; setAnalysisStep(...) }, 800)
\* `request` tells whether the describe request the timer was armed for is
\* still awaited.
progressInterval(uri) ==
    [op |-> "progressInterval", pc |-> "armed", uri |-> uri, dots |-> 0,
     request |-> "pending"]

\* analyzeImage after manipulateAsync, fetch and the FileReader, with the
\* timer: reader.onload arms progressInterval and sends the describe request.
p1_analyzeImage_onload ==
    \E t \in TaskSet, how \in {"sent", "threw", "readerError"} :
        /\ t.op = "analyzeImage" /\ t.pc = "optimizing"
        /\ UNCHANGED <<capturedPhotos, selectedPhoto, selectedLanguage, isSelectionMode,
                       selectedPhotos, showDeleteConfirmation, analysisCache, camVars,
                       storeVars, ops>>
        /\ IF how = "sent"
           THEN /\ UNCHANGED <<aiAnalysis, isAnalyzing>>
                /\ tasks' = Spawn(Spawn(Retire(tasks, t),
                                        [Touch(t) EXCEPT !.pc = "describing",
                                                         !.reqs = Append(t.reqs, "describe")]),
                                  progressInterval(t.uri))
                /\ done' = NoOp
           ELSE /\ aiAnalysis' = ErrorText(t.uri)
                /\ isAnalyzing' = FALSE
                /\ Finish(t, Report(t, Null))

\* One firing of the timer.
p1_progressInterval ==
    \E timer \in TaskSet :
        /\ timer.op = "progressInterval"
        /\ tasks' = Spawn(Retire(tasks, timer), [timer EXCEPT !.dots = (timer.dots + 1) % 4])
        /\ done' = [op |-> "progressInterval", task |-> timer]
        /\ UNCHANGED <<uiVars, analysisCache, camVars, storeVars, ops>>

\* analyzeImage when the describe request returns, with the timer:
\* clearInterval follows the await and is skipped when the request throws.
p1_analyzeImage_response ==
    \E t \in TaskSet, outcome \in Outcomes :
        /\ t.op = "analyzeImage" /\ t.pc = "describing"
        /\ UNCHANGED <<capturedPhotos, selectedPhoto, selectedLanguage, isSelectionMode,
                       selectedPhotos, showDeleteConfirmation, analysisCache, camVars,
                       storeVars, ops>>
        /\ \E timer \in TaskSet :
            /\ timer.op = "progressInterval" /\ timer.uri = t.uri
            /\ timer.request = "pending"
            /\ IF outcome = "throw"
               THEN /\ aiAnalysis' = ErrorText(t.uri)
                    /\ isAnalyzing' = FALSE
                    /\ tasks' = Spawn(Retire(Retire(tasks, t), timer),
                                      [timer EXCEPT !.request = "settled"])
                    /\ done' = Report([t EXCEPT !.outcome = outcome], Null)
               ELSE /\ UNCHANGED <<aiAnalysis, isAnalyzing>>
                    /\ done' = NoOp
                    /\ tasks' = Spawn(Retire(Retire(tasks, t), timer),
                        [Touch(t) EXCEPT
                            !.pc = "saving",
                            !.outcome = outcome,
                            !.text = IF outcome = "content" THEN DescribeResult(t.uri, t.lang)
                                     ELSE Placeholder(t.uri, t.lang),
                            !.got = stAnalyses])

p1_NextProgress ==
    \/ p1_loadSavedPhotos
    \/ p1_loadSavedPhotos_getPhotos
    \/ p1_loadLanguagePreference
    \/ p1_openPhoto
    \/ p1_openPhoto_loaded
    \/ p1_closePhoto
    \/ p1_analyzeImage
    \/ p1_analyzeImage_loaded
    \/ p1_analyzeImage_onload
    \/ p1_progressInterval
    \/ p1_analyzeImage_response
    \/ p1_analyzeImage_saving
    \/ p1_analyzeImage_saved

SpecP1Progress == Init /\ [][p1_NextProgress]_vars

\* C23: the progress timer is cleared on every outcome of the describe
\* request: no timer stays armed once its request has succeeded or failed,
\* and a timer that fires does so while its request is awaited.
C23_IntervalCleared ==
    /\ \A timer \in TaskSet : timer.op = "progressInterval" => timer.request = "pending"
    /\ done.op = "progressInterval" => done.task.request = "pending"

(***************************************************************************)
(* Further properties of the Detail screen (src/app/(tabs)/Detail.tsx).    *)
(***************************************************************************)
\* renderItem onPress while an earlier invocation has not returned: the modal
\* was closed (the grid is visible) and nothing disables the grid meanwhile.
openPhoto_whileBusy ==
    \E item \in SeqToSet(capturedPhotos) :
        /\ ops < MaxOps /\ tasks # EmptyBag /\ InFlight <= MaxInFlight
        /\ GridVisible /\ ~isSelectionMode
        /\ aiAnalysis' = Null
        /\ selectedPhoto' = item
        /\ UNCHANGED <<capturedPhotos, isAnalyzing, selectedLanguage, isSelectionMode,
                       selectedPhotos, showDeleteConfirmation, analysisCache, camVars,
                       storeVars>>
        /\ Begin(NewTask("openPhoto", "hashed", selectedLanguage, item.uri, Absent))

NextReopen ==
    \/ loadSavedPhotos
    \/ loadSavedPhotos_getPhotos
    \/ loadAnalysisCache
    \/ loadLanguagePreference
    \/ openPhoto
    \/ openPhoto_whileBusy
    \/ openPhoto_hashed
    \/ openPhoto_loaded
    \/ closePhoto
    \/ analyzeImage
    \/ analyzeImage_hashed
    \/ analyzeImage_cacheHitTimer
    \/ analyzeImage_checked
    \/ analyzeImage_optimized
    \/ analyzeImage_described
    \/ saveAnalysisToStorage_cache
    \/ saveAnalysisToStorage_record
    \/ analyzeImage_saved

\* The Detail screen with a photo opened while an analysis is in flight.
SpecReopen == Init /\ [][NextReopen]_vars

\* C24: while a photo is open, an analysis text that aiAnalysis holds was
\* produced for the photo that is selected.
C24_AnalysisOfSelectedPhoto ==
    (selectedPhoto # Null /\ aiAnalysis.kind = "analysis") =>
        aiAnalysis.uri = selectedPhoto.uri

(***************************************************************************)
(* Deleting photos of src/unnamed/part_001 while an analysis is in flight. *)
(***************************************************************************)
\* The confirmation dialog's Delete button while an earlier invocation has
\* not returned: nothing disables the button meanwhile.
p1_deleteSelectedPhotos_whileBusy ==
    /\ ops < MaxOps /\ tasks # EmptyBag /\ InFlight <= MaxInFlight
    /\ showDeleteConfirmation
    /\ capturedPhotos' = p1_updatedPhotos(capturedPhotos, selectedPhotos)
    /\ UNCHANGED <<selectedPhoto, aiAnalysis, isAnalyzing, selectedLanguage,
                   isSelectionMode, selectedPhotos, showDeleteConfirmation,
                   analysisCache, camVars, stAnalyses, stCache, stRecords, stLanguage>>
    /\ IF selectedPhotos = {}
       THEN /\ stPhotos' = p1_savePhotosToStorage(capturedPhotos')
            /\ Begin(NewTask("deleteSelectedPhotos", "photosSaved", selectedLanguage,
                             <<>>, Absent)
                     @@ [photos |-> capturedPhotos', sel |-> selectedPhotos, todo |-> {}])
       ELSE /\ UNCHANGED stPhotos
            /\ \E photo \in selectedPhotos :
                 Begin(NewTask("deleteSelectedPhotos", "deleting", selectedLanguage,
                               photo.uri, stAnalyses)
                       @@ [photos |-> capturedPhotos', sel |-> selectedPhotos,
                           todo |-> selectedPhotos \ {photo}])

p1_NextDelete ==
    \/ p1_loadSavedPhotos
    \/ p1_loadSavedPhotos_getPhotos
    \/ p1_loadLanguagePreference
    \/ p1_openPhoto
    \/ p1_openPhoto_loaded
    \/ p1_closePhoto
    \/ p1_analyzeImage
    \/ p1_analyzeImage_loaded
    \/ p1_analyzeImage_optimized
    \/ p1_analyzeImage_described
    \/ p1_analyzeImage_saving
    \/ p1_analyzeImage_saved
    \/ p1_longPressItem
    \/ p1_pressDelete
    \/ p1_deleteSelectedPhotos
    \/ p1_deleteSelectedPhotos_whileBusy
    \/ p1_deleteSelectedPhotos_deleting
    \/ p1_deleteSelectedPhotos_deleted
    \/ p1_deleteSelectedPhotos_photosSaved

SpecP1Delete == Init /\ [][p1_NextDelete]_vars

\* C25: once deleteSelectedPhotos has removed a photo from the persisted list
\* and no invocation is in flight any more, the persisted "analyses" map has
\* no entry for the uri of that photo in any language.
C25_DeletedStaysDeleted ==
    (stPhotos.present /\ tasks = EmptyBag) =>
        \A uri \in Uris \ SeqToSet(stPhotos.val), lang \in languages :
            ~HasAnalysis(stAnalyses, uri, lang)

(***************************************************************************)
(* Deleting photos of src/unnamed/part_001 whose analyses are stored.      *)
(***************************************************************************)
p1_NextCascade ==
    \/ p1_loadSavedPhotos
    \/ p1_loadSavedPhotos_getPhotos
    \/ p1_loadLanguagePreference
    \/ p1_pressItem
    \/ p1_longPressItem
    \/ p1_toggleSelectionMode
    \/ p1_pressDelete
    \/ p1_cancelDelete
    \/ p1_deleteSelectedPhotos
    \/ p1_deleteSelectedPhotos_deleting
    \/ p1_deleteSelectedPhotos_deleted
    \/ p1_deleteSelectedPhotos_photosSaved

SpecP1Cascade == p1_InitAnalyzed /\ [][p1_NextCascade]_vars

\* C26: when deleteSelectedPhotos has returned, and no other invocation wrote
\* to the store while it ran, every entry `<v>_<language>` of a photo v that
\* was not selected is in the persisted "analyses" map as it was at the call.
C26_DeleteKeepsOtherPhotos ==
    (done.op = "deleteSelectedPhotos" /\ done.clean) =>
        \A v \in Uris \ {photo.uri : photo \in done.task.sel}, lang \in languages :
            HasAnalysis(PreAnalyses(done), v, lang) =>
                /\ HasAnalysis(stAnalyses, v, lang)
                /\ stAnalyses.val[KeyOf(v, lang)] = PreAnalyses(done).val[KeyOf(v, lang)]

(***************************************************************************)
(* The Detail screen of src/app/(tabs)/Detail.tsx after the camera tab     *)
(* navigated to it with analyzeImmediately = "true".  The parameter stays  *)
(* as it is while the screen lives; the effect of handleImmediateAnalysis  *)
(* has [analyzeImmediately, capturedPhotos] as dependencies, so React runs *)
(* it after every setCapturedPhotos with a new array.                      *)
(***************************************************************************)
\* The run of the effect that a setCapturedPhotos(photos) schedules; `before`
\* is the list that was displayed until then.
immediateEffect(photos) ==
    NewTask("handleImmediateAnalysis", "effect", selectedLanguage, <<>>, Absent)
        @@ [photos |-> photos, before |-> capturedPhotos]

\* loadSavedPhotos after `await AsyncStorage.getItem("capturedPhotos")`, on
\* the screen that was navigated to with analyzeImmediately = "true".
loadSavedPhotos_getPhotos_immediate ==
    \E t \in TaskSet :
        /\ t.op = "loadSavedPhotos" /\ t.pc = "getPhotos"
        /\ capturedPhotos' = IF t.got.present THEN ParsePhotos(t.got.val, 0)
                             ELSE capturedPhotos
        /\ UNCHANGED <<selectedPhoto, aiAnalysis, isAnalyzing, selectedLanguage,
                       isSelectionMode, selectedPhotos, showDeleteConfirmation,
                       analysisCache, camVars, storeVars, ops>>
        /\ done' = NoOp
        /\ tasks' = IF t.got.present
                    THEN Spawn(Spawn(Retire(tasks, t),
                                     [Touch(t) EXCEPT !.pc = "getCache", !.got = stCache]),
                               immediateEffect(capturedPhotos'))
                    ELSE Spawn(Retire(tasks, t),
                               [Touch(t) EXCEPT !.pc = "getCache", !.got = stCache])

\* deleteSelectedPhotos up to its first await, on the same screen.
deleteSelectedPhotos_immediate ==
    /\ CanInvoke
    /\ showDeleteConfirmation
    /\ capturedPhotos' = remainingPhotos(capturedPhotos, selectedPhotos)
    /\ stPhotos' = Item(UrisOf(capturedPhotos'))
    /\ UNCHANGED <<selectedPhoto, aiAnalysis, isAnalyzing, selectedLanguage,
                   isSelectionMode, selectedPhotos, showDeleteConfirmation,
                   analysisCache, camVars, stAnalyses, stCache, stRecords, stLanguage>>
    /\ tasks' = Spawn(Spawn(tasks,
                    NewTask("deleteSelectedPhotos", "photosSaved", selectedLanguage, <<>>,
                            Absent)
                        @@ [photos |-> capturedPhotos', sel |-> selectedPhotos,
                            todo |-> selectedPhotos]),
                    immediateEffect(capturedPhotos'))
    /\ ops' = ops + 1
    /\ done' = NoOp

\* handleImmediateAnalysis: with a photo in the list it calls
\* openPhoto(capturedPhotos[0]), which runs up to the awaited digest.
handleImmediateAnalysis ==
    \E t \in TaskSet :
        /\ t.op = "handleImmediateAnalysis" /\ t.pc = "effect"
        /\ UNCHANGED <<capturedPhotos, isAnalyzing, selectedLanguage, isSelectionMode,
                       selectedPhotos, showDeleteConfirmation, analysisCache, camVars,
                       storeVars, ops>>
        /\ IF t.photos = <<>>
           THEN /\ UNCHANGED <<aiAnalysis, selectedPhoto>>
                /\ Finish(t, NoOp)
           ELSE /\ aiAnalysis' = Null
                /\ selectedPhoto' = t.photos[1]
                /\ Continue(t, [Touch(t) EXCEPT !.pc = "hashed", !.uri = t.photos[1].uri,
                                                !.lang = selectedLanguage])

\* openPhoto, called by handleImmediateAnalysis, after the digest.
handleImmediateAnalysis_hashed ==
    \E t \in TaskSet :
        /\ t.op = "handleImmediateAnalysis" /\ t.pc = "hashed"
        /\ UNCHANGED <<capturedPhotos, selectedPhoto, isAnalyzing, selectedLanguage,
                       isSelectionMode, selectedPhotos, showDeleteConfirmation,
                       analysisCache, camVars, storeVars, ops>>
        /\ IF Has(analysisCache, HashOf(t.uri, t.lang))
           THEN /\ aiAnalysis' = analysisCache[HashOf(t.uri, t.lang)]
                /\ Continue(t, [Touch(t) EXCEPT !.pc = "timer"])
           ELSE /\ UNCHANGED aiAnalysis
                /\ Continue(t, [Touch(t) EXCEPT !.pc = "loaded", !.got = stCache])

\* openPhoto, called by handleImmediateAnalysis, after the getItem of
\* "analysisCache"; then handleImmediateAnalysis starts its 500 ms timer.
handleImmediateAnalysis_loaded ==
    \E t \in TaskSet :
        /\ t.op = "handleImmediateAnalysis" /\ t.pc = "loaded"
        /\ UNCHANGED <<capturedPhotos, selectedPhoto, isAnalyzing, selectedLanguage,
                       isSelectionMode, selectedPhotos, showDeleteConfirmation,
                       camVars, storeVars, ops>>
        /\ IF Parses(t.got) /\ Has(t.got.val, HashOf(t.uri, t.lang))
           THEN /\ analysisCache' = Put(analysisCache, HashOf(t.uri, t.lang),
                                        t.got.val[HashOf(t.uri, t.lang)])
                /\ aiAnalysis' = t.got.val[HashOf(t.uri, t.lang)]
           ELSE UNCHANGED <<analysisCache, aiAnalysis>>
        /\ Continue(t, [Touch(t) EXCEPT !.pc = "timer"])

\* The timer of handleImmediateAnalysis fires: analyzeImage(mostRecentPhoto.uri)
\* up to the awaited digest.
handleImmediateAnalysis_timer ==
    \E t \in TaskSet :
        /\ t.op = "handleImmediateAnalysis" /\ t.pc = "timer"
        /\ isAnalyzing' = TRUE
        /\ aiAnalysis' = Null
        /\ UNCHANGED <<capturedPhotos, selectedPhoto, selectedLanguage, isSelectionMode,
                       selectedPhotos, showDeleteConfirmation, analysisCache, camVars,
                       storeVars, ops>>
        /\ tasks' = Spawn(Retire(tasks, t),
                          NewTask("analyzeImage", "hashed", selectedLanguage, t.uri, Absent))
        /\ done' = [op |-> "handleImmediateAnalysis", task |-> t]

NextImmediate ==
    \/ loadSavedPhotos
    \/ loadSavedPhotos_getPhotos_immediate
    \/ loadAnalysisCache
    \/ loadLanguagePreference
    \/ handleImmediateAnalysis
    \/ handleImmediateAnalysis_hashed
    \/ handleImmediateAnalysis_loaded
    \/ handleImmediateAnalysis_timer
    \/ closePhoto
    \/ analyzeImage_hashed
    \/ analyzeImage_cacheHitTimer
    \/ analyzeImage_checked
    \/ analyzeImage_optimized
    \/ analyzeImage_described
    \/ saveAnalysisToStorage_cache
    \/ saveAnalysisToStorage_record
    \/ analyzeImage_saved
    \/ longPressItem
    \/ pressDelete
    \/ deleteSelectedPhotos_immediate
    \/ deleteSelectedPhotos_photosSaved
    \/ deleteSelectedPhotos_keys
    \/ deleteSelectedPhotos_cacheRead
    \/ deleteSelectedPhotos_cacheWritten
    \/ deleteSelectedPhotos_removed

SpecImmediate == Init /\ [][NextImmediate]_vars

\* C27: the automatic open-and-analyze runs at most once: the effect opens a
\* photo and starts an analysis only for the first list of photos the screen
\* gets, not for a later change of capturedPhotos (a list that replaces a
\* list of photos has been preceded by a run for that list).
C27_ImmediateOnce ==
    /\ \A t \in TaskSet :
          (t.op = "handleImmediateAnalysis" /\ t.pc # "effect") => t.before = <<>>
    /\ done.op = "handleImmediateAnalysis" => done.task.before = <<>>

\* C28: whenever no invocation is in flight, every record
\* `analysis_<uri>_<L>` has as its text the value of the item "analysisCache"
\* under the digest of `<uri>_<L>`.
C28_RecordsAgreeWithCache ==
    (tasks = EmptyBag) =>
        \A uri \in Uris, lang \in languages :
            Has(stRecords, RecordKey(uri, lang)) =>
                /\ InCache(stCache, uri, lang)
                /\ stCache.val[HashOf(uri, lang)] = stRecords[RecordKey(uri, lang)].text

(***************************************************************************)
(* Selecting and deleting photos on the Detail screen                      *)
(* (src/app/(tabs)/Detail.tsx).                                            *)
(***************************************************************************)
NextSelection ==
    \/ loadSavedPhotos
    \/ loadSavedPhotos_getPhotos
    \/ loadAnalysisCache
    \/ loadLanguagePreference
    \/ openPhoto
    \/ openPhoto_hashed
    \/ openPhoto_loaded
    \/ closePhoto
    \/ pressItem
    \/ longPressItem
    \/ toggleSelectionMode
    \/ pressDelete
    \/ cancelDelete
    \/ deleteSelectedPhotos
    \/ deleteSelectedPhotos_photosSaved
    \/ deleteSelectedPhotos_keys
    \/ deleteSelectedPhotos_cacheRead
    \/ deleteSelectedPhotos_cacheWritten
    \/ deleteSelectedPhotos_removed

InitSelection ==
    /\ InitUI
    /\ InitStore \/ InitStoreAnalyzed
    /\ tasks = EmptyBag

SpecSelection == InitSelection /\ [][NextSelection]_vars

\* C29: outside selection mode no photo is selected.
C29_NoSelectionOutsideMode == ~isSelectionMode => selectedPhotos = {}

\* deleteSelectedPhotos has returned from a call with photos selected, and
\* the screen is outside selection mode.
C29_Witness ==
    /\ done.op = "deleteSelectedPhotos" /\ done.task.sel # {}
    /\ ~isSelectionMode

(***************************************************************************)
(* Termination of analyzeImage (src/app/(tabs)/Detail.tsx).  The event     *)
(* loop runs every continuation whose promise has settled and every timer  *)
(* that is due; the storage reads, the image processing and the remote     *)
(* request are taken to return, with a value or with an error.             *)
(***************************************************************************)
FairAnalyze ==
    /\ WF_vars(analyzeImage_hashed)
    /\ WF_vars(analyzeImage_cacheHitTimer)
    /\ WF_vars(analyzeImage_checked)
    /\ WF_vars(analyzeImage_optimized)
    /\ WF_vars(analyzeImage_described)
    /\ WF_vars(saveAnalysisToStorage_cache)
    /\ WF_vars(saveAnalysisToStorage_record)
    /\ WF_vars(analyzeImage_saved)

SpecAnalyzeFair == Init /\ [][NextReopen]_vars /\ FairAnalyze

\* C30: isAnalyzing, which analyzeImage sets when it is called, is
\* eventually false again, on every path of the invocation.
C30_AnalyzingEnds == isAnalyzing ~> ~isAnalyzing

\* An analyzeImage has gone through the remote request and the saves and
\* has returned, or has returned on a cache hit or on a failure, and
\* isAnalyzing is false.
C30_Witness == done.op = "analyzeImage" /\ ~isAnalyzing

====
